---- MODULE Spec2Model ----
(***************************************************************************)
(* Model of the AWS provider of faast.js/cloudify: provisioning            *)
(* (initialize), queue-mode dispatch (cloudifyWithResponse,                *)
(* resultCollector), the dead-letter drain and teardown (cleanup,          *)
(* cancelWithoutCleanup).                                                  *)
(*                                                                         *)
(* Node.js runs one turn at a time: an action of this model is one turn,   *)
(* i.e. the completion of the awaited SDK request (its effect on the cloud *)
(* included) followed by the synchronous code up to the next await.        *)
(***************************************************************************)
EXTENDS Integers, Sequences, FiniteSets, TLC

\* ------------------------------------------------------------------ bounds
MaxCalls == 2          \* invokes issued on one instance
MaxCollectors == 3     \* resultCollector tasks ever started on one instance
MaxCancels == 1        \* cancelWithoutCleanup(state) calls made by the user
MaxCleanups == 2       \* consecutive cleanup(state) runs
TeardownCalls == 1     \* invokes issued on an instance that is torn down
MaxPoll == 2           \* attempts of pollAWSRequest (the code passes 100)
MaxForeign == 1        \* messages on the response queue that are not replies
MaxAttempts == 3       \* the n passed to a pollAWSRequest call observed alone
MaxLocalCalls == 3     \* callFunction calls on one State of the local provider
MaxInits == 3          \* initialize calls of the local provider in one process
MaxEntries == 2        \* instance directories found in the temp directory

Calls == 1..MaxCalls
Tasks == 1..MaxCollectors

\* ------------------------------------------------------- cloud and manifest
\* The cloud objects an instance works with.
ResourceKinds ==
    {"function", "logGroup", "execRole", "execRoleAttached", "execRoleInline",
     "feedbackRole", "feedbackRoleAttached", "topic", "topicFeedbackAttr",
     "responseQueue", "dlq", "permission", "subscription"}

\* AWSResources: the fields initialize always sets, and the optional ones.
RequiredFields == {"FunctionName", "RoleName", "rolePolicy", "logGroupName", "region"}
OptionalFields ==
    {"RequestTopicArn", "ResponseQueueUrl", "DeadLetterQueueUrl",
     "SNSLambdaSubscriptionArn", "SNSFeedbackRole"}

RoleHandling == {"createTemporaryRole", "createOrReuseCachedRole"}

\* options.RoleName: not given (""), or a role of the user's.
RoleNameOptions == {"", "my-role"}

\* The RoleName initialize works with: the option or its default, replaced by
\* a name made of the nonce when the role is temporary.
\* (RoleNameFromOption: a given option wins over the nonce.)
RoleNameFromOption(policy, option) ==
    IF option # "" THEN option
    ELSE IF policy = "createTemporaryRole" THEN "cloudify-role-nonce"
    ELSE "cloudify-cached-lambda-role"

RoleName(policy, option) ==
    IF policy = "createTemporaryRole" THEN "cloudify-role-nonce"
    ELSE IF option = "" THEN "cloudify-cached-lambda-role"
    ELSE option

VARIABLES
    useQueue,               \* state.useQueue
    rolePolicy,             \* state.resources.rolePolicy
    resources,              \* the fields of state.resources that are set
    cloud,                  \* cloud objects that exist
    created,                \* cloud objects this instance has created (history)
    init,                   \* initialize(): its position and that of createFunction
    callResultPromises,     \* state.callResultPromises: CallId -> deferred
    deferred,               \* per deferred: status and the value it was settled with
    resultCollectorPromise, \* state.resultCollectorPromise: 0 (undefined) or a task
    collector,              \* per resultCollector task: its status
    timers,                 \* setTimeout(..., 0) callbacks, in firing order
    responseQueue,          \* messages visible on the response queue
    call,                   \* per invoke: its position
    dlq,                    \* dead-letter queue and deadLetterQueueCollector
    cl,                     \* cleanup(state): its position
    cancel,                 \* cancelWithoutCleanup: the tasks it awaits
    response,               \* one invoke's reply, and the Response it returns
    poll,                   \* one pollAWSRequest call: its inputs and its position
    local,                  \* local provider: state.wrappers and the callFunction calls
    gc,                     \* local provider: garbageCollectorRunning and the passes
    hist                    \* history of observations the properties refer to

vars == <<useQueue, rolePolicy, resources, cloud, created, init,
          callResultPromises, deferred, resultCollectorPromise, collector,
          timers, responseQueue, call, dlq, cl, cancel, response, poll, local, gc,
          hist>>

configVars == <<useQueue, rolePolicy>>
localVars == <<poll, local, gc>>
dispatchVars == <<callResultPromises, deferred, resultCollectorPromise, collector,
                  timers, responseQueue, call>>

\* ---------------------------------------------------------------- messages
\* A message body is text: the JSON encoding of a FunctionReturn (named by the
\* call whose return it is) or some other text.
JSONstringify(r) == [t |-> "json", v |-> r]
TextBody == [t |-> "text", v |-> 0]
NoMessage == [kind |-> "none", id |-> 0, CallId |-> 0, Body |-> TextBody]
\* The reply of the trampoline to call c: attribute CallId = c, body = the
\* serialized FunctionReturn of call c.
ReplyMessage(c) == [kind |-> "reply", id |-> c, CallId |-> c, Body |-> JSONstringify(c)]
\* sendQueueStopMessage: body "empty", attribute cloudify = "stop".
StopMessage(run) == [kind |-> "stop", id |-> run, CallId |-> 0, Body |-> TextBody]
\* The request of call c, moved to the dead-letter queue after the function
\* could not be invoked with it.
DeadLetterMessage(c) == [kind |-> "deadLetter", id |-> c, CallId |-> 0, Body |-> TextBody]

isQueueStopMessage(m) == m.kind = "stop"

\* Messages on the response queue that no trampoline reply accounts for. The
\* CallId attribute of a message is the id of a call, an id no pending call
\* has, or missing; the body is JSON text, other text, or missing.
UnknownCallId == 0
NoCallIdAttribute == 0 - 1
NoBody == [t |-> "none", v |-> 0]
ForeignMessages ==
    {[kind |-> "foreign", id |-> 1, CallId |-> UnknownCallId, Body |-> JSONstringify(0)],
     [kind |-> "foreign", id |-> 2, CallId |-> UnknownCallId, Body |-> NoBody],
     [kind |-> "foreign", id |-> 3, CallId |-> UnknownCallId, Body |-> TextBody],
     [kind |-> "foreign", id |-> 4, CallId |-> NoCallIdAttribute, Body |-> JSONstringify(0)]}

\* ---------------------------------------------------------------- deferred
NoDeferred == 0
createDeferred == [status |-> "pending", rawResponse |-> NoMessage, returned |-> 0]
Unused == [status |-> "none", rawResponse |-> NoMessage, returned |-> 0]

\* JSON.parse(message.Body): the FunctionReturn the body encodes; throws on
\* text that is not JSON.
JSONparse(Body) ==
    IF Body.t = "json" THEN [ok |-> TRUE, value |-> Body.v]
    ELSE [ok |-> FALSE, value |-> 0]

\* deferred.resolve(v) / deferred.reject(e): a settled promise stays as it is.
ResolveDeferred(defs, d, returned, message) ==
    IF defs[d].status = "pending"
    THEN [defs EXCEPT ![d] = [status |-> "resolved", rawResponse |-> message,
                              returned |-> returned]]
    ELSE defs

RejectDeferred(defs, d) ==
    IF defs[d].status = "pending"
    THEN [defs EXCEPT ![d] = [status |-> "rejected", rawResponse |-> NoMessage,
                              returned |-> 0]]
    ELSE defs

\* Map.get / Map.delete / Map.set on callResultPromises.
MapGet(map, k) == IF k \in DOMAIN map THEN map[k] ELSE NoDeferred
MapDelete(map, k) == [x \in (DOMAIN map) \ {k} |-> map[x]]
MapSet(map, k, v) == [x \in (DOMAIN map) \cup {k} |-> IF x = k THEN v ELSE map[x]]
EmptyMap == [x \in {} |-> NoDeferred]

\* ------------------------------------------------------- response collector
\* receiveMessage returns up to MaxNumberOfMessages of the visible messages,
\* in any order.
MaxNumberOfMessages == 10

RECURSIVE Batches(_, _)
Batches(S, n) ==
    IF n = 0 \/ S = {} THEN {<<>>}
    ELSE {<<>>} \cup UNION {{<<m>> \o b : b \in Batches(S \ {m}, n - 1)} : m \in S}

Range(s) == {s[i] : i \in DOMAIN s}

\* The loop over Messages in resultCollector: stops at a stop sentinel;
\* otherwise looks the CallId up, removes it from the map and collects the
\* CallResults entry. Reading the CallId of a message that has no such
\* attribute throws a TypeError out of the loop, into the catch block.
\* (LookupOldest: the deferred of the oldest pending call, whatever the CallId.)
LookupOldest(map, CallId) ==
    IF DOMAIN map = {} THEN NoDeferred
    ELSE map[CHOOSE k \in DOMAIN map : \A j \in DOMAIN map : k <= j]

Lookup(map, CallId) == MapGet(map, CallId)

RECURSIVE CollectMessages(_, _, _, _)
CollectMessages(Messages, i, map, callResults) ==
    IF i > Len(Messages)
    THEN [stopped |-> FALSE, threw |-> FALSE, map |-> map, callResults |-> callResults]
    ELSE IF isQueueStopMessage(Messages[i])
    THEN [stopped |-> TRUE, threw |-> FALSE, map |-> map, callResults |-> callResults]
    ELSE IF Messages[i].CallId = NoCallIdAttribute
    THEN [stopped |-> FALSE, threw |-> TRUE, map |-> map, callResults |-> callResults]
    ELSE LET CallId == Messages[i].CallId IN
         CollectMessages(Messages, i + 1, MapDelete(map, CallId),
             Append(callResults, [CallId |-> CallId, message |-> Messages[i],
                                  deferred |-> Lookup(map, CallId)]))

\* rejectAll: rejects every deferred still in callResultPromises; the map
\* itself is left as it is.
RECURSIVE RejectKeys(_, _, _)
RejectKeys(map, keys, defs) ==
    IF keys = {} THEN defs
    ELSE LET k == CHOOSE x \in keys : TRUE IN
         RejectKeys(map, keys \ {k}, RejectDeferred(defs, map[k]))

rejectAll(map, defs) == RejectKeys(map, DOMAIN map, defs)

\* resolvePromises(results): the setTimeout callback of one received batch.
RECURSIVE resolvePromises(_, _, _)
resolvePromises(results, i, defs) ==
    IF i > Len(results) THEN defs
    ELSE LET r == results[i]
             parsed == JSONparse(r.message.Body)
         IN  IF r.message.Body = NoBody          \* if (!message.Body) continue
             THEN resolvePromises(results, i + 1, defs)
             ELSE IF ~parsed.ok THEN defs     \* JSON.parse throws out of the callback
             ELSE IF r.deferred = NoDeferred
             THEN resolvePromises(results, i + 1, defs)
             ELSE resolvePromises(results, i + 1,
                      ResolveDeferred(defs, r.deferred, parsed.value, r.message))

\* startResultCollectorIfNeeded: a new resultCollector task runs up to its
\* first receiveMessage.
FreshTask(coll) ==
    CHOOSE t \in Tasks : coll[t] = "unstarted"
                         /\ \A u \in Tasks : u < t => coll[u] # "unstarted"

\* (CollectorNeededIgnoringHandle: the test without its second conjunct.)
CollectorNeededIgnoringHandle(map, handle) == DOMAIN map # {}

CollectorNeeded(map, handle) == DOMAIN map # {} /\ handle = 0

\* (startResultCollectorOnce: a collector is started only when none was
\* started before.)
startResultCollectorOnce(map, handle, coll) ==
    IF CollectorNeeded(map, handle) /\ \A t \in Tasks : coll[t] = "unstarted"
    THEN [handle |-> FreshTask(coll),
          collector |-> [coll EXCEPT ![FreshTask(coll)] = "polling"]]
    ELSE [handle |-> handle, collector |-> coll]

startResultCollectorIfNeeded(map, handle, coll) ==
    IF CollectorNeeded(map, handle)
    THEN [handle |-> FreshTask(coll),
          collector |-> [coll EXCEPT ![FreshTask(coll)] = "polling"]]
    ELSE [handle |-> handle, collector |-> coll]

\* The model stops starting collectors when MaxCollectors tasks were started.
CanStart(map, handle, coll) ==
    CollectorNeeded(map, handle) => \E t \in Tasks : coll[t] = "unstarted"

ResolveTimer(results) == [kind |-> "resolve", results |-> results]
RestartTimer == [kind |-> "restart", results |-> <<>>]

Initialized == init.pc = "returned"

\* One iteration of the while loop of resultCollector: receiveMessage
\* returns the batch, the messages are deleted, the batch is processed and the
\* loop condition is evaluated again.
\* The request a collector waits for was issued in or after the turn that
\* scheduled any pending setTimeout(..., 0) callback, so its response is
\* handled after those callbacks have run.
CollectorReceive(t, Messages) ==
    /\ collector[t] = "polling"
    /\ timers = <<>>
    /\ "responseQueue" \in cloud
    /\ LET r == CollectMessages(Messages, 1, callResultPromises, <<>>) IN
       /\ responseQueue' = responseQueue \ Range(Messages)
       /\ callResultPromises' = r.map
       /\ IF r.stopped
          THEN /\ deferred' = rejectAll(r.map, deferred)
               /\ resultCollectorPromise' = 0
               /\ collector' = [collector EXCEPT ![t] = "done"]
               /\ timers' = timers
               /\ hist' = [hist EXCEPT !.outstanding = @ \cup
                                 {c \in Calls : deferred[c].status = "pending"}]
          ELSE /\ deferred' = deferred
               /\ hist' = hist
               /\ LET scheduled == IF r.threw \/ r.callResults = <<>> THEN timers
                                   ELSE Append(timers, ResolveTimer(r.callResults))
                  IN  IF DOMAIN r.map # {}
                      THEN /\ timers' = scheduled
                           /\ UNCHANGED <<resultCollectorPromise, collector>>
                      ELSE /\ timers' = Append(scheduled, RestartTimer)
                           /\ resultCollectorPromise' = 0
                           /\ collector' = [collector EXCEPT ![t] = "done"]
    /\ UNCHANGED <<configVars, localVars, response, resources, cloud, created, init, call, dlq, cl, cancel>>

\* receiveMessage on a deleted queue rejects: the task ends with that error;
\* state.resultCollectorPromise keeps referring to it.
CollectorReceiveFails(t) ==
    /\ collector[t] = "polling"
    /\ timers = <<>>
    /\ "responseQueue" \notin cloud
    /\ collector' = [collector EXCEPT ![t] = "failed"]
    /\ UNCHANGED <<configVars, localVars, response, resources, cloud, created, init, callResultPromises,
                   deferred, resultCollectorPromise, timers, responseQueue, call,
                   dlq, cl, cancel, hist>>

\* The next setTimeout(..., 0) callback runs.
TimerFires ==
    /\ timers # <<>>
    /\ timers' = Tail(timers)
    /\ IF Head(timers).kind = "resolve"
       THEN /\ deferred' = resolvePromises(Head(timers).results, 1, deferred)
            /\ UNCHANGED <<resultCollectorPromise, collector>>
       ELSE /\ CanStart(callResultPromises, resultCollectorPromise, collector)
            /\ LET s == startResultCollectorIfNeeded(callResultPromises,
                            resultCollectorPromise, collector)
               IN  /\ resultCollectorPromise' = s.handle
                   /\ collector' = s.collector
            /\ deferred' = deferred
    /\ UNCHANGED <<configVars, localVars, response, resources, cloud, created, init, callResultPromises,
                   responseQueue, call, dlq, cl, cancel, hist>>

\* ------------------------------------------------------------------ invoke
NewCall == [pc |-> "idle", delivered |-> FALSE, replied |-> FALSE]

\* (enqueueCallRequestStartingFirst: the collector is started before the
\* deferred is registered.)
enqueueCallRequestStartingFirst(map, handle, coll, CallId) ==
    LET s == startResultCollectorIfNeeded(map, handle, coll)
    IN  [map |-> MapSet(map, CallId, CallId), handle |-> s.handle,
         collector |-> s.collector]

\* enqueueCallRequest(state, CallId)
enqueueCallRequest(map, handle, coll, CallId) ==
    LET registered == MapSet(map, CallId, CallId)
        s == startResultCollectorIfNeeded(registered, handle, coll)
    IN  [map |-> registered, handle |-> s.handle, collector |-> s.collector]

\* The request reaches the function when topic, subscription, permission and
\* function exist.
Deliverable == {"topic", "subscription", "permission", "function"} \subseteq cloud

\* responsifedFunc, queue path, up to the await of sns.publish: the deferred is
\* created and registered, the collector started, the publish request issued.
InvokeQueue(c) ==
    /\ Initialized /\ useQueue
    /\ call[c].pc = "idle"
    /\ \A b \in Calls : b < c => call[b].pc # "idle"
    /\ CanStart(MapSet(callResultPromises, c, c), resultCollectorPromise, collector)
    /\ LET e == enqueueCallRequest(callResultPromises, resultCollectorPromise,
                                   collector, c)
       IN  /\ callResultPromises' = e.map
           /\ resultCollectorPromise' = e.handle
           /\ collector' = e.collector
    /\ deferred' = [deferred EXCEPT ![c] = createDeferred]
    /\ call' = [call EXCEPT ![c] = [pc |-> "publish", delivered |-> Deliverable,
                                    replied |-> FALSE]]
    /\ hist' = [hist EXCEPT !.late = @ \cup (IF cl.run > 0 THEN {c} ELSE {}),
                            !.after = @ \cup (IF cl.pc = "returned" THEN {c} ELSE {})]
    /\ UNCHANGED <<configVars, localVars, response, resources, cloud, created, init, timers,
                   responseQueue, dlq, cl, cancel>>

\* sns.publish returns: the invoke goes on to await its deferred, or throws the
\* transport error.
PublishReturns(c) ==
    /\ call[c].pc = "publish"
    /\ call' = [call EXCEPT ![c].pc = IF "topic" \in cloud THEN "await" ELSE "failed"]
    /\ UNCHANGED <<configVars, localVars, response, resources, cloud, created, init, callResultPromises,
                   deferred, resultCollectorPromise, collector, timers,
                   responseQueue, dlq, cl, cancel, hist>>

\* The trampoline sends the FunctionReturn of call c to the response queue,
\* possibly before sns.publish has returned to the caller.
TrampolineReplies(c) ==
    /\ call[c].pc \in {"publish", "await"}
    /\ call[c].delivered /\ ~call[c].replied
    /\ "responseQueue" \in cloud
    /\ responseQueue' = responseQueue \cup {ReplyMessage(c)}
    /\ call' = [call EXCEPT ![c].replied = TRUE]
    /\ UNCHANGED <<configVars, localVars, response, resources, cloud, created, init, callResultPromises,
                   deferred, resultCollectorPromise, collector, timers, dlq, cl,
                   cancel, hist>>

\* await responsePromise: the invoke returns its Response, or throws the
\* error its deferred was rejected with.
ResponseArrives(c) ==
    /\ call[c].pc = "await"
    /\ deferred[c].status \in {"resolved", "rejected"}
    /\ call' = [call EXCEPT ![c].pc = IF deferred[c].status = "resolved"
                                      THEN "returned" ELSE "cancelled"]
    /\ UNCHANGED <<configVars, localVars, response, resources, cloud, created, init, callResultPromises,
                   deferred, resultCollectorPromise, collector, timers,
                   responseQueue, dlq, cl, cancel, hist>>

\* responsifedFunc, direct path: lambda.invoke is issued, and returns.
InvokeDirect(c) ==
    /\ Initialized /\ ~useQueue
    /\ call[c].pc = "idle"
    /\ \A b \in Calls : b < c => call[b].pc # "idle"
    /\ call' = [call EXCEPT ![c].pc = "invoke"]
    /\ UNCHANGED <<configVars, localVars, response, resources, cloud, created, init, callResultPromises,
                   deferred, resultCollectorPromise, collector, timers,
                   responseQueue, dlq, cl, cancel, hist>>

InvokeDirectReturns(c) ==
    /\ call[c].pc = "invoke"
    /\ call' = [call EXCEPT ![c].pc = IF "function" \in cloud THEN "returned"
                                      ELSE "failed"]
    /\ UNCHANGED <<configVars, localVars, response, resources, cloud, created, init, callResultPromises,
                   deferred, resultCollectorPromise, collector, timers,
                   responseQueue, dlq, cl, cancel, hist>>

\* ------------------------------------------------------- dead-letter drain
\* One iteration of the loop of deadLetterQueueCollector: the received
\* messages are deleted and logged; a stop sentinel ends the loop.
\* (FailDeadLetters: the drain rejects the deferred of the call a dead letter
\* belongs to.)
FailDeadLetters(Messages, defs) ==
    [c \in DOMAIN defs |->
        IF \E m \in Messages : m.kind = "deadLetter" /\ m.id = c
        THEN RejectDeferred(defs, c)[c] ELSE defs[c]]

\* Messages.forEach in deadLetterQueueCollector: every message is written to
\* the log and nothing else is done with it.
LogDeadLetters(Messages, defs) == defs

DeadLetterReceive(Messages) ==
    /\ dlq.task = "polling"
    /\ "dlq" \in cloud
    /\ Messages # {} /\ Messages \subseteq dlq.msgs
    /\ deferred' = LogDeadLetters(Messages, deferred)
    /\ dlq' = [task |-> IF \E m \in Messages : isQueueStopMessage(m)
                        THEN "stopped" ELSE "polling",
               msgs |-> dlq.msgs \ Messages]
    /\ UNCHANGED <<configVars, localVars, response, resources, cloud, created, init,
                   callResultPromises, resultCollectorPromise, collector, timers,
                   responseQueue, call, cl, cancel, hist>>

\* receiveMessage on the deleted dead-letter queue rejects and ends the task.
DeadLetterReceiveFails ==
    /\ dlq.task = "polling"
    /\ "dlq" \notin cloud
    /\ dlq' = [dlq EXCEPT !.task = "failed"]
    /\ UNCHANGED <<configVars, localVars, response, resources, cloud, created, init, dispatchVars, cl,
                   cancel, hist>>

\* ---------------------------------------------------------------- teardown
\* The awaits of cleanup(state), in program order; deleteRole contributes five.
CleanupSteps ==
    <<"unsubscribe", "deleteFunction", "deleteLogGroup",
      "role.listAttached", "role.detach", "role.listInline", "role.deleteInline",
      "role.deleteRole",
      "sns.listAttached", "sns.detach", "sns.listInline", "sns.deleteInline",
      "sns.deleteRole",
      "awaitCancel", "deleteTopic", "deleteResponseQueue", "deleteDLQ">>

StepIndex(pc) == CHOOSE i \in DOMAIN CleanupSteps : CleanupSteps[i] = pc

\* The condition under which cleanup performs a step, on the fields it read
\* from state.resources when it was called.
\* (StepConditionAlways: every step is performed.)
StepConditionAlways(step, snap) == TRUE

StepCondition(step, snap) ==
    CASE step = "unsubscribe" -> "SNSLambdaSubscriptionArn" \in snap.fields
      [] step = "deleteFunction" -> "FunctionName" \in snap.fields
      [] step = "deleteLogGroup" -> "logGroupName" \in snap.fields
      [] step \in {"role.listAttached", "role.detach", "role.listInline",
                   "role.deleteInline", "role.deleteRole"} ->
             /\ "RoleName" \in snap.fields
             /\ "rolePolicy" \in snap.fields
             /\ snap.rolePolicy = "createTemporaryRole"
      [] step \in {"sns.listAttached", "sns.detach", "sns.listInline",
                   "sns.deleteInline", "sns.deleteRole"} ->
             /\ "SNSFeedbackRole" \in snap.fields
             /\ "rolePolicy" \in snap.fields
             /\ snap.rolePolicy = "createTemporaryRole"
      [] step = "awaitCancel" -> TRUE
      [] step = "deleteTopic" -> "RequestTopicArn" \in snap.fields
      [] step = "deleteResponseQueue" -> "ResponseQueueUrl" \in snap.fields
      [] step = "deleteDLQ" -> "DeadLetterQueueUrl" \in snap.fields

\* The next await cleanup reaches after step i (0: from its call).
NextStep(i, snap) ==
    LET later == {j \in DOMAIN CleanupSteps :
                     j > i /\ StepCondition(CleanupSteps[j], snap)}
    IN  IF later = {} THEN "returned"
        ELSE CleanupSteps[CHOOSE j \in later : \A k \in later : j <= k]

NoCancel == [sendR |-> "none", sendD |-> "none", wait |-> 0, n |-> 0]

\* cancelWithoutCleanup(state) up to its await: the stop sentinels are sent
\* and the collector's promise is taken from the state.
cancelWithoutCleanup(fields, handle, n) ==
    [n |-> n + 1,
     sendR |-> IF "ResponseQueueUrl" \in fields /\ handle # 0
               THEN "inflight" ELSE "none",
     wait  |-> IF "ResponseQueueUrl" \in fields /\ handle # 0 THEN handle ELSE 0,
     sendD |-> IF "DeadLetterQueueUrl" \in fields THEN "inflight" ELSE "none"]

\* Promise.all(tasks) of cancelWithoutCleanup: rejected as soon as the awaited
\* collector task has failed, resolved when every task has ended.
\* (CancelPromiseUncaught: a failed send rejects, as without carefully.)
CancelPromiseUncaught(c, coll) ==
    IF \/ c.wait # 0 /\ coll[c.wait] = "failed"
       \/ c.sendR = "failed" \/ c.sendD = "failed"
    THEN "rejected"
    ELSE IF /\ c.sendR # "inflight" /\ c.sendD # "inflight"
            /\ (c.wait = 0 \/ coll[c.wait] = "done")
    THEN "resolved"
    ELSE "pending"

\* A failed send does not reject: carefully catches and logs the error.
CancelPromise(c, coll) ==
    IF c.wait # 0 /\ coll[c.wait] = "failed" THEN "rejected"
    ELSE IF /\ c.sendR # "inflight" /\ c.sendD # "inflight"
            /\ (c.wait = 0 \/ coll[c.wait] = "done")
    THEN "resolved"
    ELSE "pending"

NoCleanup == [pc |-> "idle", run |-> 0, listed |-> FALSE, via |-> "cleanup",
              services |-> FALSE,
              snap |-> [fields |-> {}, rolePolicy |-> "createOrReuseCachedRole"]]

\* cleanup(state) from its call to its first await.
CleanupEnter(run, fields, policy, handle, previous) ==
    LET snap == [fields |-> fields, rolePolicy |-> policy] IN
    IF StepCondition("unsubscribe", snap)
    THEN [cl |-> [pc |-> "unsubscribe", run |-> run, listed |-> FALSE,
                  via |-> "cleanup", services |-> TRUE, snap |-> snap],
          cancel |-> previous]
    ELSE [cl |-> [pc |-> NextStep(1, snap), run |-> run, listed |-> FALSE,
                  via |-> "cleanup", services |-> TRUE, snap |-> snap],
          cancel |-> cancelWithoutCleanup(fields, handle, previous.n)]

\* A successful delete, unsubscribe or send of the current run is recorded.
Mutated(changed) ==
    [hist EXCEPT !.mutated = IF changed /\ cl.run > 0 THEN @ \cup {cl.run} ELSE @]

\* The user calls cleanup(state): for the first time, or again after the
\* previous call has returned.
CleanupCall ==
    /\ Initialized
    /\ cl.pc \in {"idle", "returned"}
    /\ cl.run < MaxCleanups
    /\ LET e == CleanupEnter(cl.run + 1, resources, rolePolicy,
                             resultCollectorPromise, cancel)
       IN  cl' = e.cl /\ cancel' = e.cancel
    /\ UNCHANGED <<configVars, localVars, response, resources, cloud, created, init, dispatchVars, dlq, hist>>

\* getResourceList(state): the manifest as text.
\* (getResourceListRequired: only the fields every manifest has.)
getResourceListRequired(fields) == JSONstringify(fields \cap RequiredFields)

getResourceList(fields) == JSONstringify(fields)

\* cleanupResources(resourceString) up to the first await of cleanup: the
\* manifest is parsed; without a region it throws before createAWSApis;
\* otherwise cleanup runs on a state that has the manifest, fresh services, an
\* empty map and no collector.
\* (cleanupResourcesUnchecked: without the test for the region.)
cleanupResourcesUnchecked(run, resourceString, policy, previous) ==
    LET manifest == JSONparse(resourceString).value
        e == CleanupEnter(run, manifest, policy, 0, previous)
    IN  [cl |-> [e.cl EXCEPT !.via = "cleanupResources"], cancel |-> e.cancel]

cleanupResources(run, resourceString, policy, previous) ==
    LET manifest == JSONparse(resourceString).value
        e == CleanupEnter(run, manifest, policy, 0, previous)
    IN  IF "region" \notin manifest
        THEN [cl |-> [NoCleanup EXCEPT !.pc = "malformed", !.run = run,
                                       !.via = "cleanupResources"],
              cancel |-> previous]
        ELSE [cl |-> [e.cl EXCEPT !.via = "cleanupResources"], cancel |-> e.cancel]

\* A process that did not run initialize calls cleanupResources on a manifest:
\* the one it was given, or the one a failed initialize left behind.
CleanupResourcesCall ==
    /\ \/ init.pc = "none" /\ cl.pc = "idle"
       \/ init.pc = "rejected" /\ cl.pc \in {"returned", "threw"}
    /\ cl.run < MaxCleanups
    /\ LET e == cleanupResources(cl.run + 1, getResourceList(resources),
                                 rolePolicy, cancel)
       IN  cl' = e.cl /\ cancel' = e.cancel
    /\ UNCHANGED <<configVars, localVars, response, resources, cloud, created, init, dispatchVars, dlq, hist>>

\* Such a process calls cleanup(state) on a state it built around a partial
\* manifest (PartialState).
CleanupPartialCall ==
    /\ init.pc = "none"
    /\ cl.pc = "idle"
    /\ LET e == CleanupEnter(cl.run + 1, resources, rolePolicy,
                             resultCollectorPromise, cancel)
       IN  cl' = e.cl /\ cancel' = e.cancel
    /\ UNCHANGED <<configVars, localVars, response, resources, cloud, created, init, dispatchVars, dlq, hist>>

\* sns.unsubscribe returns; cancelWithoutCleanup is called and deleteFunction
\* (or the next applicable request) is issued.
UnsubscribeReturns ==
    /\ cl.pc = "unsubscribe"
    /\ cloud' = cloud \ {"subscription"}
    /\ hist' = Mutated("subscription" \in cloud)
    /\ cl' = [cl EXCEPT !.pc = NextStep(1, cl.snap)]
    /\ cancel' = cancelWithoutCleanup(resources, resultCollectorPromise, cancel.n)
    /\ UNCHANGED <<configVars, localVars, response, resources, created, init, dispatchVars, dlq>>

\* The user calls cancelWithoutCleanup(state), once the previous call has
\* returned.
CancelCall ==
    /\ Initialized /\ cl.pc = "idle"
    /\ cancel.n < MaxCancels
    /\ CancelPromise(cancel, collector) # "pending"
    /\ cancel' = cancelWithoutCleanup(resources, resultCollectorPromise, cancel.n)
    /\ UNCHANGED <<configVars, localVars, response, resources, cloud, created, init, dispatchVars, dlq,
                   cl, hist>>

\* sqs.sendMessage of a stop sentinel returns: the sentinel is on the queue,
\* or the send failed (carefully logs the error).
SendStopReturns(q) ==
    /\ q \in {"responseQueue", "dlq"}
    /\ IF q = "responseQueue"
       THEN /\ cancel.sendR = "inflight"
            /\ cancel' = [cancel EXCEPT !.sendR = IF q \in cloud THEN "done"
                                                  ELSE "failed"]
            /\ responseQueue' = IF q \in cloud
                                THEN responseQueue \cup {StopMessage(cancel.n)}
                                ELSE responseQueue
            /\ dlq' = dlq
       ELSE /\ cancel.sendD = "inflight"
            /\ cancel' = [cancel EXCEPT !.sendD = IF q \in cloud THEN "done"
                                                  ELSE "failed"]
            /\ dlq' = IF q \in cloud
                      THEN [dlq EXCEPT !.msgs = @ \cup {StopMessage(cancel.n)}]
                      ELSE dlq
            /\ responseQueue' = responseQueue
    /\ hist' = Mutated(q \in cloud)
    /\ UNCHANGED <<configVars, localVars, response, resources, cloud, created, init, callResultPromises,
                   deferred, resultCollectorPromise, collector, timers, call, cl>>

DeleteFunctionReturns ==
    /\ cl.pc = "deleteFunction"
    /\ cloud' = cloud \ {"function", "permission"}
    /\ hist' = Mutated("function" \in cloud)
    /\ cl' = [cl EXCEPT !.pc = NextStep(StepIndex("deleteFunction"), cl.snap)]
    /\ UNCHANGED <<configVars, localVars, response, resources, created, init, dispatchVars, dlq, cancel>>

DeleteLogGroupReturns ==
    /\ cl.pc = "deleteLogGroup"
    /\ cloud' = cloud \ {"logGroup"}
    /\ hist' = Mutated("logGroup" \in cloud)
    /\ cl' = [cl EXCEPT !.pc = NextStep(StepIndex("deleteLogGroup"), cl.snap)]
    /\ UNCHANGED <<configVars, localVars, response, resources, created, init, dispatchVars, dlq, cancel>>

\* deleteRole(RoleName, iam), one await at a time. who is "role" for the
\* execution role and "sns" for the feedback role; IAM refuses to delete a
\* role that still has policies.
RoleObject(who) == IF who = "role" THEN "execRole" ELSE "feedbackRole"
AttachedObject(who) == IF who = "role" THEN "execRoleAttached" ELSE "feedbackRoleAttached"
InlineObject(who) == IF who = "role" THEN "execRoleInline" ELSE "feedbackRoleInline"

DeleteRoleEffect(who, step, listed, objects) ==
    CASE step = "listAttached" -> objects
      [] step = "detach" -> IF listed THEN objects \ {AttachedObject(who)} ELSE objects
      [] step = "listInline" -> objects
      [] step = "deleteInline" -> IF listed THEN objects \ {InlineObject(who)} ELSE objects
      [] step = "deleteRole" ->
            IF AttachedObject(who) \in objects \/ InlineObject(who) \in objects
            THEN objects ELSE objects \ {RoleObject(who)}

DeleteRoleListed(who, step, objects) ==
    CASE step = "listAttached" -> AttachedObject(who) \in objects
      [] step = "listInline" -> InlineObject(who) \in objects
      [] OTHER -> FALSE

DeleteRoleStep(who, step) ==
    /\ who \in {"role", "sns"}
    /\ step \in {"listAttached", "detach", "listInline", "deleteInline", "deleteRole"}
    /\ cl.pc = IF who = "role"
               THEN CASE step = "listAttached" -> "role.listAttached"
                      [] step = "detach" -> "role.detach"
                      [] step = "listInline" -> "role.listInline"
                      [] step = "deleteInline" -> "role.deleteInline"
                      [] step = "deleteRole" -> "role.deleteRole"
               ELSE CASE step = "listAttached" -> "sns.listAttached"
                      [] step = "detach" -> "sns.detach"
                      [] step = "listInline" -> "sns.listInline"
                      [] step = "deleteInline" -> "sns.deleteInline"
                      [] step = "deleteRole" -> "sns.deleteRole"
    /\ cloud' = DeleteRoleEffect(who, step, cl.listed, cloud)
    /\ hist' = [Mutated(cloud' # cloud) EXCEPT
                    !.deleteRole = IF step = "deleteRole" THEN @ \cup {who} ELSE @]
    /\ cl' = [cl EXCEPT !.pc = NextStep(StepIndex(cl.pc), cl.snap),
                        !.listed = DeleteRoleListed(who, step, cloud)]
    /\ UNCHANGED <<configVars, localVars, response, resources, created, init, dispatchVars, dlq, cancel>>

\* await cancelPromise: cleanup goes on when the stop sentinels are sent and
\* the collector it waited for has ended, and throws when that task failed.
AwaitCancel ==
    /\ cl.pc = "awaitCancel"
    /\ CancelPromise(cancel, collector) # "pending"
    /\ cl' = [cl EXCEPT !.pc = IF CancelPromise(cancel, collector) = "resolved"
                               THEN NextStep(StepIndex("awaitCancel"), cl.snap)
                               ELSE "threw"]
    /\ UNCHANGED <<configVars, localVars, response, resources, cloud, created, init, dispatchVars, dlq,
                   cancel, hist>>

DeleteTopicReturns ==
    /\ cl.pc = "deleteTopic"
    /\ cloud' = cloud \ {"topic", "topicFeedbackAttr", "subscription"}
    /\ hist' = Mutated("topic" \in cloud)
    /\ cl' = [cl EXCEPT !.pc = NextStep(StepIndex("deleteTopic"), cl.snap)]
    /\ UNCHANGED <<configVars, localVars, response, resources, created, init, dispatchVars, dlq, cancel>>

DeleteResponseQueueReturns ==
    /\ cl.pc = "deleteResponseQueue"
    /\ cloud' = cloud \ {"responseQueue"}
    /\ responseQueue' = {}
    /\ hist' = Mutated("responseQueue" \in cloud)
    /\ cl' = [cl EXCEPT !.pc = NextStep(StepIndex("deleteResponseQueue"), cl.snap)]
    /\ UNCHANGED <<configVars, localVars, response, resources, created, init, callResultPromises, deferred,
                   resultCollectorPromise, collector, timers, call, dlq, cancel>>

DeleteDLQReturns ==
    /\ cl.pc = "deleteDLQ"
    /\ cloud' = cloud \ {"dlq"}
    /\ dlq' = [dlq EXCEPT !.msgs = {}]
    /\ hist' = Mutated("dlq" \in cloud)
    /\ cl' = [cl EXCEPT !.pc = NextStep(StepIndex("deleteDLQ"), cl.snap)]
    /\ UNCHANGED <<configVars, localVars, response, resources, created, init, dispatchVars, cancel>>

Cleanup ==
    \/ CleanupCall
    \/ UnsubscribeReturns
    \/ \E q \in {"responseQueue", "dlq"} : SendStopReturns(q)
    \/ DeleteFunctionReturns
    \/ DeleteLogGroupReturns
    \/ \E who \in {"role", "sns"} :
         \E step \in {"listAttached", "detach", "listInline", "deleteInline",
                      "deleteRole"} : DeleteRoleStep(who, step)
    \/ AwaitCancel
    \/ DeleteTopicReturns
    \/ DeleteResponseQueueReturns
    \/ DeleteDLQReturns

\* ----------------------------------------------------------- result mapping
\* JavaScript values, tagged with their type. The payload of a primitive is
\* its text; the payload of an object is a record of its fields.
JSValue(t, v) == [t |-> t, v |-> v]
undefined == JSValue("undefined", "")
false == JSValue("boolean", "false")
true == JSValue("boolean", "true")
Primitives ==
    {undefined, JSValue("null", ""), false, true, JSValue("number", "0"),
     JSValue("number", "1"), JSValue("string", ""), JSValue("string", "0"),
     JSValue("string", "a")}

\* ToBoolean, and the operators ! and && built on it.
Truthy(x) ==
    /\ x.t \notin {"undefined", "null"}
    /\ x.t \in {"boolean", "number", "string"} => x.v \notin {"false", "0", ""}

Not(x) == IF Truthy(x) THEN false ELSE true

\* What the remote function may have thrown, as the trampoline serializes it.
ErrorNames == {"Error", "TypeError", "RangeError"}
ErrorMessages == {"", "boom"}
ErrorStacks == {"", "at f", "at g"}
ErrorValues ==
    {JSValue("object", [name |-> n, message |-> m, stack |-> k]) :
        n \in ErrorNames, m \in ErrorMessages, k \in ErrorStacks}

\* FunctionReturn: { type: "value" | "error", value }.
FunctionReturn(type, value) == JSValue("object", [type |-> type, value |-> value])
ValueReturns == {FunctionReturn("value", v) : v \in Primitives}
ErrorReturns == {FunctionReturn("error", e) : e \in ErrorValues}

\* new Error(message): its name is "Error" and its stack is the local one.
NewError(message) ==
    JSValue("object", [name |-> "Error", message |-> message, stack |-> "local"])

\* cloudifyWithResponse, after the reply is in: a FunctionReturn of type
\* "error" is rebuilt as an Error; value is `!error && returned &&
\* returned.value`.
ReturnedError(returned, error) ==
    IF Truthy(returned) /\ returned.v.type = "error"
    THEN LET errValue == returned.v.value IN
         JSValue("object", [NewError(errValue.v.message).v EXCEPT
                                !.name = errValue.v.name,
                                !.stack = errValue.v.stack])
    ELSE error

ReturnedValue(returned, error) ==
    IF ~Truthy(Not(error)) THEN Not(error)
    ELSE IF ~Truthy(returned) THEN returned
    ELSE returned.v.value

Response(returned, error, rawResponse) ==
    LET mapped == ReturnedError(returned, error) IN
    [value |-> ReturnedValue(returned, mapped), error |-> mapped,
     rawResponse |-> rawResponse]

\* The variable `response` when no invoke is followed, and while the invoke
\* followed awaits what `settled` holds.
NoResponse == [pc |-> "none"]
Awaiting(settled) ==
    [pc |-> "awaiting", settled |-> settled,
     rv |-> [value |-> undefined, error |-> undefined, rawResponse |-> undefined]]

\* What the await yields. Queue mode: resultCollector resolved the deferred
\* with the parsed body and the message. Direct mode: the InvocationResponse,
\* with the serialized FunctionReturn as Payload, or with FunctionError set and
\* a description as Payload, or without Payload.
QueueSettled(r) ==
    LET message == [kind |-> "reply", Body |-> JSONstringify(r)] IN
    [returned |-> JSONparse(message.Body).value, rawResponse |-> message]

DirectSettled(FunctionError, Payload) ==
    [rawResponse |-> [FunctionError |-> FunctionError, Payload |-> Payload]]

ErrorPayloads == {JSValue("text", "Unhandled"), JSValue("text", "Task timed out")}

\* Queue mode: `await responsePromise` hands over what resultCollector put
\* in the deferred, and the Response is returned.
QueueResponse ==
    /\ useQueue
    /\ response.pc = "awaiting"
    /\ LET settled == response.settled IN
       response' = [response EXCEPT
                        !.pc = "returned",
                        !.rv = Response(settled.returned, undefined,
                                        settled.rawResponse)]
    /\ UNCHANGED <<configVars, localVars, resources, cloud, created, init, dispatchVars, dlq,
                   cl, cancel, hist>>

\* Direct mode: lambda.invoke returns; FunctionError makes an Error of the
\* payload, otherwise the payload is parsed; the Response is returned.
DirectResponse ==
    /\ ~useQueue
    /\ response.pc = "awaiting"
    /\ LET rawResponse == response.settled.rawResponse
           error == IF rawResponse.FunctionError THEN NewError(rawResponse.Payload.v)
                    ELSE undefined
           returned == IF ~Truthy(Not(error)) THEN Not(error)
                       ELSE IF rawResponse.Payload.t = "undefined" THEN undefined
                       ELSE JSONparse(rawResponse.Payload).value
       IN  response' = [response EXCEPT
                            !.pc = "returned",
                            !.rv = Response(returned, error, rawResponse)]
    /\ UNCHANGED <<configVars, localVars, resources, cloud, created, init, dispatchVars, dlq,
                   cl, cancel, hist>>

\* No pollAWSRequest call under observation; no local-provider instance.
NoPoll == [pc |-> "none", n |-> 0, i |-> 0, attempts |-> <<>>, result |-> undefined]
NoLocal == [wrappers |-> <<>>, call |-> <<>>]
NoGC == [garbageCollectorRunning |-> FALSE, pass |-> <<>>]

\* ------------------------------------------------- dispatch specification
\* The manifest and the cloud after a successful initialize.
QueueFields == {"SNSFeedbackRole", "RequestTopicArn", "ResponseQueueUrl",
                "SNSLambdaSubscriptionArn"}
BaseObjects == {"function", "logGroup", "execRole", "execRoleAttached",
                "execRoleInline", "dlq"}
QueueObjects == {"feedbackRole", "feedbackRoleAttached", "topic",
                 "topicFeedbackAttr", "responseQueue", "permission", "subscription"}
RoleObjects == {"execRole", "execRoleAttached", "execRoleInline", "feedbackRole",
                "feedbackRoleAttached"}

NoHistory == [outstanding |-> {}, late |-> {}, after |-> {}, mutated |-> {},
              deleteRole |-> {}, foreign |-> 0, deadLetters |-> {}]

Init ==
    /\ useQueue \in BOOLEAN
    /\ rolePolicy \in RoleHandling
    /\ resources = RequiredFields \cup {"DeadLetterQueueUrl"}
                   \cup (IF useQueue THEN QueueFields ELSE {})
    /\ cloud = BaseObjects \cup (IF useQueue THEN QueueObjects ELSE {})
    /\ created = cloud \ (IF rolePolicy = "createOrReuseCachedRole"
                          THEN RoleObjects ELSE {})
    /\ init = [pc |-> "returned", fn |-> "resolved", tries |-> 0, fnTries |-> 0,
                option |-> "", RoleName |-> RoleName(rolePolicy, "")]
    /\ callResultPromises = EmptyMap
    /\ deferred = [c \in Calls |-> Unused]
    /\ resultCollectorPromise = 0
    /\ collector = [t \in Tasks |-> "unstarted"]
    /\ timers = <<>>
    /\ responseQueue = {}
    /\ call = [c \in Calls |-> NewCall]
    /\ dlq = [task |-> "polling", msgs |-> {}]
    /\ cl = NoCleanup
    /\ cancel = NoCancel
    /\ response = NoResponse
    /\ hist = NoHistory
    /\ poll = NoPoll
    /\ local = NoLocal
    /\ gc = NoGC

Invocation ==
    \/ \E c \in Calls : InvokeQueue(c)
    \/ \E c \in Calls : PublishReturns(c)
    \/ \E c \in Calls : TrampolineReplies(c)
    \/ \E c \in Calls : ResponseArrives(c)
    \/ \E c \in Calls : InvokeDirect(c)
    \/ \E c \in Calls : InvokeDirectReturns(c)
    \/ \E t \in Tasks : \E Messages \in Batches(responseQueue, MaxNumberOfMessages) :
           CollectorReceive(t, Messages)
    \/ TimerFires

Dispatch ==
    \/ Invocation
    \/ \E Messages \in SUBSET dlq.msgs : DeadLetterReceive(Messages)

\* An initialized instance in use: invokes, replies, the collector, the
\* drain, and cancelWithoutCleanup called by the user.
Next ==
    \/ Dispatch
    \/ CancelCall
    \/ \E q \in {"responseQueue", "dlq"} : SendStopReturns(q)

Spec == Init /\ [][Next]_vars

\* An initialized instance in use whose SDK calls all succeed and on which
\* neither cancelWithoutCleanup nor cleanup is called. Every request that was
\* issued completes (sns.publish, receiveMessage with the messages the queue
\* holds) and the event loop runs every setTimeout callback and every
\* continuation that is ready.
Fairness ==
    /\ WF_vars(\E c \in Calls : PublishReturns(c))
    /\ WF_vars(\E c \in Calls : ResponseArrives(c))
    /\ WF_vars(TimerFires)
    /\ WF_vars(\E t \in Tasks : \E Messages \in Batches(responseQueue, MaxNumberOfMessages) :
                   CollectorReceive(t, Messages))

SpecLive == Init /\ [][Invocation]_vars /\ Fairness

\* A message that is not the reply to a pending call becomes visible on the
\* response queue (at most MaxForeign of them in a behaviour).
ForeignMessage(m) ==
    /\ Initialized /\ useQueue
    /\ "responseQueue" \in cloud
    /\ hist.foreign < MaxForeign
    /\ responseQueue' = responseQueue \cup {m}
    /\ hist' = [hist EXCEPT !.foreign = @ + 1]
    /\ UNCHANGED <<configVars, localVars, response, resources, cloud, created, init,
                   callResultPromises, deferred, resultCollectorPromise, collector,
                   timers, call, dlq, cl, cancel>>

\* An initialized instance in use, without teardown, whose response queue
\* also receives messages that are not replies to pending calls.
BatchNext ==
    \/ Invocation
    \/ \E m \in ForeignMessages : ForeignMessage(m)

SpecBatch == Init /\ [][BatchNext]_vars

\* The request of a pending call that has not been answered ends in the
\* dead-letter queue: the trampoline will not reply to it.
DeadLetterArrives(c) ==
    /\ call[c].pc \in {"publish", "await"}
    /\ call[c].delivered /\ ~call[c].replied
    /\ "dlq" \in cloud
    /\ call' = [call EXCEPT ![c].delivered = FALSE]
    /\ dlq' = [dlq EXCEPT !.msgs = @ \cup {DeadLetterMessage(c)}]
    /\ hist' = [hist EXCEPT !.deadLetters = @ \cup {c}]
    /\ UNCHANGED <<configVars, localVars, response, resources, cloud, created, init,
                   callResultPromises, deferred, resultCollectorPromise, collector,
                   timers, responseQueue, cl, cancel>>

\* An initialized instance in use whose requests may end in the dead-letter
\* queue.
DrainNext ==
    \/ Next
    \/ \E c \in Calls : DeadLetterArrives(c)

SpecDrain == Init /\ [][DrainNext]_vars

\* An initialized instance that is torn down by cleanup(state) while it is in
\* use.
TeardownNext ==
    \/ (Dispatch /\ \A c \in Calls : c > TeardownCalls => call'[c].pc = "idle")
    \/ \E t \in Tasks : CollectorReceiveFails(t)
    \/ DeadLetterReceiveFails
    \/ Cleanup

SpecTeardown == Init /\ [][TeardownNext]_vars

\* sqs.sendMessage of a stop sentinel is rejected although the queue exists
\* (a throttled or failed request): carefully logs the error and no sentinel
\* is on the queue.
SendStopFails(q) ==
    /\ q \in cloud
    /\ IF q = "responseQueue"
       THEN cancel.sendR = "inflight" /\ cancel' = [cancel EXCEPT !.sendR = "failed"]
       ELSE cancel.sendD = "inflight" /\ cancel' = [cancel EXCEPT !.sendD = "failed"]
    /\ UNCHANGED <<configVars, localVars, response, resources, cloud, created, init,
                   dispatchVars, dlq, cl, hist>>

\* A teardown in which every SDK request ends, with success or with an
\* error, every setTimeout callback runs, and a receiveMessage returns the
\* messages its queue holds. Nothing obliges the function to answer a request:
\* cleanup deletes it while requests may be outstanding.
TerminationNext ==
    \/ TeardownNext
    \/ \E q \in {"responseQueue", "dlq"} : SendStopFails(q)

TerminationFairness ==
    /\ WF_vars(Cleanup \/ \E q \in {"responseQueue", "dlq"} : SendStopFails(q))
    /\ WF_vars(TimerFires)
    /\ WF_vars(\E t \in Tasks : CollectorReceiveFails(t))
    /\ WF_vars(\E t \in Tasks : \E Messages \in Batches(responseQueue, MaxNumberOfMessages) :
                   CollectorReceive(t, Messages))
    /\ WF_vars(\E c \in Calls : PublishReturns(c) \/ ResponseArrives(c))

SpecTermination == Init /\ [][TerminationNext]_vars /\ TerminationFairness

\* ------------------------------------------------------------ provisioning
\* pollAWSRequest(n, description, fn), one attempt at a time: the outcome of
\* the attempt made after `failed` failed attempts.
\* (pollAWSRequestOneMore: the loop bound is i <= n.)
pollAWSRequestOneMore(n, failed, ok) ==
    IF ok THEN "done"
    ELSE IF failed + 1 > n THEN "timeout"
    ELSE "retry"

pollAWSRequest(n, failed, ok) ==
    IF ok THEN "done"
    ELSE IF failed + 1 >= n THEN "timeout"
    ELSE "retry"

\* The catch block of initialize: cleanup(state) is called on the state as it
\* is.
Catch ==
    /\ LET e == CleanupEnter(cl.run + 1, resources, rolePolicy,
                             resultCollectorPromise, cancel)
       IN  cl' = e.cl /\ cancel' = e.cancel
    /\ init' = [init EXCEPT !.pc = "cleanup"]

\* await createLogGroup(...): cloudwatch.createLogGroup returns.
CreateLogGroupReturns(ok) ==
    /\ init.pc = "createLogGroup"
    /\ IF ok /\ "logGroup" \notin cloud
       THEN /\ cloud' = cloud \cup {"logGroup"}
            /\ created' = created \cup {"logGroup"}
            /\ init' = [init EXCEPT !.pc = "putRetentionPolicy"]
            /\ UNCHANGED <<cl, cancel>>
       ELSE /\ Catch
            /\ UNCHANGED <<cloud, created>>
    /\ UNCHANGED <<configVars, localVars, response, resources, dispatchVars, dlq, hist>>

\* cloudwatch.putRetentionPolicy returns; createDLQ issues sqs.createQueue.
PutRetentionPolicyReturns(ok) ==
    /\ init.pc = "putRetentionPolicy"
    /\ IF ok /\ "logGroup" \in cloud
       THEN init' = [init EXCEPT !.pc = "createDLQ"] /\ UNCHANGED <<cl, cancel>>
       ELSE Catch
    /\ UNCHANGED <<configVars, localVars, response, resources, cloud, created, dispatchVars, dlq, hist>>

\* createDLQ: sqs.createQueue returns, the URL is stored in the manifest and
\* sqs.getQueueAttributes is issued.
CreateDLQReturns(ok) ==
    /\ init.pc = "createDLQ"
    /\ IF ok
       THEN /\ cloud' = cloud \cup {"dlq"}
            /\ created' = created \cup {"dlq"}
            /\ resources' = resources \cup {"DeadLetterQueueUrl"}
            /\ init' = [init EXCEPT !.pc = "getQueueAttributes"]
            /\ UNCHANGED <<cl, cancel>>
       ELSE /\ Catch
            /\ UNCHANGED <<cloud, created, resources>>
    /\ UNCHANGED <<configVars, localVars, response, dispatchVars, dlq, hist>>

\* createDLQ returns the ARN: deadLetterQueueCollector(state) is started,
\* createFunction(...) is started (it runs up to iam.getRole), and initialize
\* goes on with the queue resources or awaits the function.
GetQueueAttributesReturns(ok) ==
    /\ init.pc = "getQueueAttributes"
    /\ IF ok /\ "dlq" \in cloud
       THEN /\ dlq' = [dlq EXCEPT !.task = "polling"]
            /\ init' = [init EXCEPT !.fn = "getRole",
                                    !.pc = IF useQueue THEN "sns.getRole"
                                           ELSE "awaitFunction"]
            /\ UNCHANGED <<cl, cancel>>
       ELSE /\ Catch
            /\ dlq' = dlq
    /\ UNCHANGED <<configVars, localVars, response, resources, cloud, created, dispatchVars, hist>>

\* createSNSFeedbackRole: quietly(iam.getRole) returns; an existing role is
\* returned and named in the manifest, otherwise iam.createRole is issued.
FeedbackGetRoleReturns(ok) ==
    /\ init.pc = "sns.getRole"
    /\ IF ok /\ "feedbackRole" \in cloud
       THEN /\ resources' = resources \cup {"SNSFeedbackRole"}
            /\ init' = [init EXCEPT !.pc = "createTopic"]
       ELSE /\ resources' = resources
            /\ init' = [init EXCEPT !.pc = "sns.createRole"]
    /\ UNCHANGED <<configVars, localVars, response, cloud, created, dispatchVars, dlq, cl, cancel, hist>>

FeedbackCreateRoleReturns(ok) ==
    /\ init.pc = "sns.createRole"
    /\ IF ok /\ "feedbackRole" \notin cloud
       THEN /\ cloud' = cloud \cup {"feedbackRole"}
            /\ created' = created \cup {"feedbackRole"}
            /\ init' = [init EXCEPT !.pc = "sns.attachRolePolicy"]
            /\ UNCHANGED <<cl, cancel>>
       ELSE /\ Catch
            /\ UNCHANGED <<cloud, created>>
    /\ UNCHANGED <<configVars, localVars, response, resources, dispatchVars, dlq, hist>>

\* iam.attachRolePolicy returns; the role is named in the manifest and
\* createSNSNotifier issues sns.createTopic.
FeedbackAttachRolePolicyReturns(ok) ==
    /\ init.pc = "sns.attachRolePolicy"
    /\ IF ok /\ "feedbackRole" \in cloud
       THEN /\ cloud' = cloud \cup {"feedbackRoleAttached"}
            /\ created' = created \cup {"feedbackRoleAttached"}
            /\ resources' = resources \cup {"SNSFeedbackRole"}
            /\ init' = [init EXCEPT !.pc = "createTopic"]
            /\ UNCHANGED <<cl, cancel>>
       ELSE /\ Catch
            /\ UNCHANGED <<cloud, created, resources>>
    /\ UNCHANGED <<configVars, localVars, response, dispatchVars, dlq, hist>>

\* sns.createTopic returns; pollAWSRequest starts setting the topic attribute.
CreateTopicReturns(ok) ==
    /\ init.pc = "createTopic"
    /\ IF ok
       THEN /\ cloud' = cloud \cup {"topic"}
            /\ created' = created \cup {"topic"}
            /\ init' = [init EXCEPT !.pc = "setTopicAttributes", !.tries = 0]
            /\ UNCHANGED <<cl, cancel>>
       ELSE /\ Catch
            /\ UNCHANGED <<cloud, created>>
    /\ UNCHANGED <<configVars, localVars, response, resources, dispatchVars, dlq, hist>>

\* One attempt of sns.setTopicAttributes under pollAWSRequest; on success the
\* topic is named in the manifest and the response queue is requested.
SetTopicAttributesReturns(ok) ==
    /\ init.pc = "setTopicAttributes"
    /\ LET outcome == pollAWSRequest(MaxPoll, init.tries, ok /\ "topic" \in cloud) IN
       CASE outcome = "done" ->
              /\ cloud' = cloud \cup {"topicFeedbackAttr"}
              /\ created' = created \cup {"topicFeedbackAttr"}
              /\ resources' = resources \cup {"RequestTopicArn"}
              /\ init' = [init EXCEPT !.pc = "createResponseQueue"]
              /\ UNCHANGED <<cl, cancel>>
         [] outcome = "retry" ->
              /\ init' = [init EXCEPT !.tries = @ + 1]
              /\ UNCHANGED <<cloud, created, resources, cl, cancel>>
         [] outcome = "timeout" ->
              /\ Catch
              /\ UNCHANGED <<cloud, created, resources>>
    /\ UNCHANGED <<configVars, localVars, response, dispatchVars, dlq, hist>>

\* createQueue of the response queue returns and is named in the manifest.
CreateResponseQueueReturns(ok) ==
    /\ init.pc = "createResponseQueue"
    /\ IF ok
       THEN /\ cloud' = cloud \cup {"responseQueue"}
            /\ created' = created \cup {"responseQueue"}
            /\ resources' = resources \cup {"ResponseQueueUrl"}
            /\ init' = [init EXCEPT !.pc = "awaitFunction"]
            /\ UNCHANGED <<cl, cancel>>
       ELSE /\ Catch
            /\ UNCHANGED <<cloud, created, resources>>
    /\ UNCHANGED <<configVars, localVars, response, dispatchVars, dlq, hist>>

\* await createFunctionPromise: initialize goes on when createFunction has
\* returned, and enters the catch block when it has thrown.
AwaitFunction ==
    /\ init.pc = "awaitFunction"
    /\ init.fn \in {"resolved", "rejected"}
    /\ IF init.fn = "resolved"
       THEN /\ init' = [init EXCEPT !.pc = IF useQueue THEN "addPermission"
                                           ELSE "returned"]
            /\ UNCHANGED <<cl, cancel>>
       ELSE Catch
    /\ UNCHANGED <<configVars, localVars, response, resources, cloud, created, dispatchVars, dlq, hist>>

AddPermissionReturns(ok) ==
    /\ init.pc = "addPermission"
    /\ IF ok /\ "function" \in cloud
       THEN /\ cloud' = cloud \cup {"permission"}
            /\ created' = created \cup {"permission"}
            /\ init' = [init EXCEPT !.pc = "subscribe"]
            /\ UNCHANGED <<cl, cancel>>
       ELSE /\ Catch
            /\ UNCHANGED <<cloud, created>>
    /\ UNCHANGED <<configVars, localVars, response, resources, dispatchVars, dlq, hist>>

\* sns.subscribe returns: the subscription is named in the manifest,
\* startResultCollectorIfNeeded finds the map empty, and initialize returns.
SubscribeReturns(ok) ==
    /\ init.pc = "subscribe"
    /\ IF ok /\ {"topic", "function"} \subseteq cloud
       THEN /\ cloud' = cloud \cup {"subscription"}
            /\ created' = created \cup {"subscription"}
            /\ resources' = resources \cup {"SNSLambdaSubscriptionArn"}
            /\ init' = [init EXCEPT !.pc = "returned"]
            /\ UNCHANGED <<cl, cancel>>
       ELSE /\ Catch
            /\ UNCHANGED <<cloud, created, resources>>
    /\ UNCHANGED <<configVars, localVars, response, dispatchVars, dlq, hist>>

\* await cleanup(state) in the catch block has ended: initialize rejects.
InitializeRejects ==
    /\ init.pc = "cleanup"
    /\ cl.pc \in {"returned", "threw"}
    /\ init' = [init EXCEPT !.pc = "rejected"]
    /\ UNCHANGED <<configVars, localVars, response, resources, cloud, created, dispatchVars, dlq, cl,
                   cancel, hist>>

\* createFunction(DeadLetterQueueUrl), the task initialize starts before it
\* creates the queue resources. It runs on whatever initialize does meanwhile.
FunctionGetRoleReturns(ok) ==
    /\ init.fn = "getRole"
    /\ init' = [init EXCEPT !.fn = IF ok /\ "execRole" \in cloud
                                   THEN "putRolePolicy" ELSE "createRole"]
    /\ UNCHANGED <<configVars, localVars, response, resources, cloud, created, dispatchVars, dlq, cl,
                   cancel, hist>>

FunctionCreateRoleReturns(ok) ==
    /\ init.fn = "createRole"
    /\ IF ok /\ "execRole" \notin cloud
       THEN /\ cloud' = cloud \cup {"execRole"}
            /\ created' = created \cup {"execRole"}
            /\ init' = [init EXCEPT !.fn = "attachRolePolicy"]
       ELSE /\ init' = [init EXCEPT !.fn = "rejected"]
            /\ UNCHANGED <<cloud, created>>
    /\ UNCHANGED <<configVars, localVars, response, resources, dispatchVars, dlq, cl, cancel, hist>>

FunctionAttachRolePolicyReturns(ok) ==
    /\ init.fn = "attachRolePolicy"
    /\ IF ok /\ "execRole" \in cloud
       THEN /\ cloud' = cloud \cup {"execRoleAttached"}
            /\ created' = created \cup {"execRoleAttached"}
            /\ init' = [init EXCEPT !.fn = "putRolePolicy"]
       ELSE /\ init' = [init EXCEPT !.fn = "rejected"]
            /\ UNCHANGED <<cloud, created>>
    /\ UNCHANGED <<configVars, localVars, response, resources, dispatchVars, dlq, cl, cancel, hist>>

\* addNoCreateLogPolicyToRole: iam.putRolePolicy returns; pack is called.
FunctionPutRolePolicyReturns(ok) ==
    /\ init.fn = "putRolePolicy"
    /\ IF ok /\ "execRole" \in cloud
       THEN /\ cloud' = cloud \cup {"execRoleInline"}
            /\ created' = IF "execRoleInline" \in cloud THEN created
                          ELSE created \cup {"execRoleInline"}
            /\ init' = [init EXCEPT !.fn = "pack"]
       ELSE /\ init' = [init EXCEPT !.fn = "rejected"]
            /\ UNCHANGED <<cloud, created>>
    /\ UNCHANGED <<configVars, localVars, response, resources, dispatchVars, dlq, cl, cancel, hist>>

\* pack(fModule) returns the archive; quietly(lambda.getFunction) is issued.
FunctionPackReturns(ok) ==
    /\ init.fn = "pack"
    /\ init' = [init EXCEPT !.fn = IF ok THEN "getFunction" ELSE "rejected"]
    /\ UNCHANGED <<configVars, localVars, response, resources, cloud, created, dispatchVars, dlq, cl,
                   cancel, hist>>

\* The probe for a function of the same name: a hit throws "Function name
\* hash collision"; otherwise the archive is read and pollAWSRequest starts
\* lambda.createFunction.
FunctionGetFunctionReturns(ok) ==
    /\ init.fn = "getFunction"
    /\ init' = [init EXCEPT !.fn = IF ok /\ "function" \in cloud THEN "rejected"
                                   ELSE "createFunction",
                            !.fnTries = 0]
    /\ UNCHANGED <<configVars, localVars, response, resources, cloud, created, dispatchVars, dlq, cl,
                   cancel, hist>>

\* One attempt of lambda.createFunction under pollAWSRequest; it succeeds only
\* when the role exists and no function of that name does.
FunctionCreateFunctionReturns(ok) ==
    /\ init.fn = "createFunction"
    /\ LET outcome == pollAWSRequest(MaxPoll, init.fnTries,
                          ok /\ "execRole" \in cloud /\ "function" \notin cloud) IN
       CASE outcome = "done" ->
              /\ cloud' = cloud \cup {"function"}
              /\ created' = created \cup {"function"}
              /\ init' = [init EXCEPT !.fn = "resolved"]
         [] outcome = "retry" ->
              /\ init' = [init EXCEPT !.fnTries = @ + 1]
              /\ UNCHANGED <<cloud, created>>
         [] outcome = "timeout" ->
              /\ init' = [init EXCEPT !.fn = "rejected"]
              /\ UNCHANGED <<cloud, created>>
    /\ UNCHANGED <<configVars, localVars, response, resources, dispatchVars, dlq, cl, cancel, hist>>

Initialize ==
    \E ok \in BOOLEAN :
        \/ CreateLogGroupReturns(ok)
        \/ PutRetentionPolicyReturns(ok)
        \/ CreateDLQReturns(ok)
        \/ GetQueueAttributesReturns(ok)
        \/ FeedbackGetRoleReturns(ok)
        \/ FeedbackCreateRoleReturns(ok)
        \/ FeedbackAttachRolePolicyReturns(ok)
        \/ CreateTopicReturns(ok)
        \/ SetTopicAttributesReturns(ok)
        \/ CreateResponseQueueReturns(ok)
        \/ AwaitFunction
        \/ AddPermissionReturns(ok)
        \/ SubscribeReturns(ok)
        \/ InitializeRejects

CreateFunction ==
    \E ok \in BOOLEAN :
        \/ FunctionGetRoleReturns(ok)
        \/ FunctionCreateRoleReturns(ok)
        \/ FunctionAttachRolePolicyReturns(ok)
        \/ FunctionPutRolePolicyReturns(ok)
        \/ FunctionPackReturns(ok)
        \/ FunctionGetFunctionReturns(ok)
        \/ FunctionCreateFunctionReturns(ok)

\* What may exist before initialize: in cached mode the cached roles, with
\* their policies, from an earlier instance.
CachedExecRole == {"execRole", "execRoleAttached", "execRoleInline"}
CachedFeedbackRole == {"feedbackRole", "feedbackRoleAttached"}

PreExisting(policy) ==
    IF policy = "createOrReuseCachedRole"
    THEN {a \cup b : a \in {{}, CachedExecRole}, b \in {{}, CachedFeedbackRole}}
    ELSE {{}}

\* initialize(fModule, options) has built the state and enters its try block.
InitProvisioning ==
    /\ useQueue \in BOOLEAN
    /\ rolePolicy \in RoleHandling
    /\ resources = RequiredFields
    /\ cloud \in PreExisting(rolePolicy)
    /\ created = {}
    /\ \E option \in RoleNameOptions :
           init = [pc |-> "createLogGroup", fn |-> "none", tries |-> 0, fnTries |-> 0,
                   option |-> option, RoleName |-> RoleName(rolePolicy, option)]
    /\ callResultPromises = EmptyMap
    /\ deferred = [c \in Calls |-> Unused]
    /\ resultCollectorPromise = 0
    /\ collector = [t \in Tasks |-> "unstarted"]
    /\ timers = <<>>
    /\ responseQueue = {}
    /\ call = [c \in Calls |-> NewCall]
    /\ dlq = [task |-> "none", msgs |-> {}]
    /\ cl = NoCleanup
    /\ cancel = NoCancel
    /\ response = NoResponse
    /\ hist = NoHistory
    /\ poll = NoPoll
    /\ local = NoLocal
    /\ gc = NoGC

ProvisioningNext ==
    \/ Initialize
    \/ CreateFunction
    \/ Cleanup
    \/ CleanupResourcesCall
    \/ \E Messages \in SUBSET dlq.msgs : DeadLetterReceive(Messages)
    \/ DeadLetterReceiveFails

SpecProvisioning == InitProvisioning /\ [][ProvisioningNext]_vars

\* initialize when a function or a log group with the derived name exists
\* already (owned by someone else), or neither.
Collisions == {{}, {"function"}, {"logGroup"}}

InitCollision ==
    /\ useQueue \in BOOLEAN
    /\ rolePolicy \in RoleHandling
    /\ resources = RequiredFields
    /\ \E pre \in PreExisting(rolePolicy) : \E other \in Collisions :
           cloud = pre \cup other
    /\ created = {}
    /\ init = [pc |-> "createLogGroup", fn |-> "none", tries |-> 0, fnTries |-> 0,
               option |-> "", RoleName |-> RoleName(rolePolicy, "")]
    /\ callResultPromises = EmptyMap
    /\ deferred = [c \in Calls |-> Unused]
    /\ resultCollectorPromise = 0
    /\ collector = [t \in Tasks |-> "unstarted"]
    /\ timers = <<>>
    /\ responseQueue = {}
    /\ call = [c \in Calls |-> NewCall]
    /\ dlq = [task |-> "none", msgs |-> {}]
    /\ cl = NoCleanup
    /\ cancel = NoCancel
    /\ response = NoResponse
    /\ hist = NoHistory
    /\ poll = NoPoll
    /\ local = NoLocal
    /\ gc = NoGC

SpecCollision == InitCollision /\ [][ProvisioningNext]_vars

\* ----------------------------------------------------------- local provider
LocalCalls == 1..MaxLocalCalls

\* No AWS instance exists; the local provider has returned a State with no
\* wrappers, and no garbage collection pass was started.
InitLocal ==
    /\ useQueue = TRUE
    /\ rolePolicy = "createOrReuseCachedRole"
    /\ resources = {}
    /\ cloud = {}
    /\ created = {}
    /\ init = [pc |-> "none", fn |-> "none", tries |-> 0, fnTries |-> 0,
               option |-> "", RoleName |-> RoleName(rolePolicy, "")]
    /\ callResultPromises = EmptyMap
    /\ deferred = [c \in Calls |-> Unused]
    /\ resultCollectorPromise = 0
    /\ collector = [t \in Tasks |-> "unstarted"]
    /\ timers = <<>>
    /\ responseQueue = {}
    /\ call = [c \in Calls |-> NewCall]
    /\ dlq = [task |-> "none", msgs |-> {}]
    /\ cl = NoCleanup
    /\ cancel = NoCancel
    /\ response = NoResponse
    /\ hist = NoHistory
    /\ poll = NoPoll
    /\ local = [wrappers |-> <<>>,
                call |-> [c \in LocalCalls |-> [pc |-> "idle", wrapper |-> 0]]]
    /\ gc = [garbageCollectorRunning |-> FALSE,
             pass |-> [i \in 1..MaxInits |-> [pc |-> "idle", left |-> 0, errors |-> 0]]]

\* wrappers.find(w => w.executing === false): the first such wrapper, 0 when
\* there is none.
idleWrapper(wrappers) ==
    LET idle == {w \in DOMAIN wrappers : wrappers[w].executing = FALSE} IN
    IF idle = {} THEN 0 ELSE CHOOSE w \in idle : \A v \in idle : w <= v

\* callFunction(state, call) up to its first suspension: getWrapper() returns
\* the idle wrapper it finds, or creates a log stream and awaits its "open".
CallFunction(c) ==
    /\ local.call[c].pc = "idle"
    /\ \A b \in LocalCalls : b < c => local.call[b].pc # "idle"
    /\ LET w == idleWrapper(local.wrappers) IN
       local' = [local EXCEPT !.call[c] =
                    IF w # 0 THEN [pc |-> "obtained", wrapper |-> w]
                    ELSE [pc |-> "open", wrapper |-> 0]]
    /\ UNCHANGED <<configVars, poll, gc, response, resources, cloud, created, init,
                   dispatchVars, dlq, cl, cancel, hist>>

\* The log stream is open (or could not be created): getWrapper creates the
\* Wrapper, pushes it on wrappers and returns it.
LogStreamOpens(c) ==
    /\ local.call[c].pc = "open"
    /\ local' = [local EXCEPT
                    !.wrappers = Append(@, [executing |-> FALSE]),
                    !.call[c] = [pc |-> "obtained", wrapper |-> Len(local.wrappers) + 1]]
    /\ UNCHANGED <<configVars, poll, gc, response, resources, cloud, created, init,
                   dispatchVars, dlq, cl, cancel, hist>>

\* await state.getWrapper() has ended: callFunction calls wrapper.execute,
\* which marks the wrapper as executing.
Execute(c) ==
    /\ local.call[c].pc = "obtained"
    /\ local' = [local EXCEPT !.wrappers[local.call[c].wrapper].executing = TRUE,
                              !.call[c].pc = "executing"]
    /\ UNCHANGED <<configVars, poll, gc, response, resources, cloud, created, init,
                   dispatchVars, dlq, cl, cancel, hist>>

\* wrapper.execute has ended: the wrapper is idle again and callFunction
\* returns.
ExecuteReturns(c) ==
    /\ local.call[c].pc = "executing"
    /\ local' = [local EXCEPT !.wrappers[local.call[c].wrapper].executing = FALSE,
                              !.call[c].pc = "returned"]
    /\ UNCHANGED <<configVars, poll, gc, response, resources, cloud, created, init,
                   dispatchVars, dlq, cl, cancel, hist>>

LocalNext ==
    \/ \E c \in LocalCalls : CallFunction(c)
    \/ \E c \in LocalCalls : LogStreamOpens(c)
    \/ \E c \in LocalCalls : Execute(c)
    \/ \E c \in LocalCalls : ExecuteReturns(c)

SpecLocal == InitLocal /\ [][LocalNext]_vars

\* (collectGarbageUnguarded: the pass starts whatever the flag says.)
collectGarbageUnguarded(running) == [pc |-> "readdir", running |-> TRUE]

\* collectGarbage(gcWorker, retentionInDays) up to its first await: it
\* returns at once when garbageCollectorRunning is set; otherwise it sets the
\* flag and issues readdir.
collectGarbage(running) ==
    IF running THEN [pc |-> "skipped", running |-> running]
    ELSE [pc |-> "readdir", running |-> TRUE]

\* The finally block: the flag is cleared and the pass has ended, normally
\* ("done") or in the outer catch ("failed").
Finally(i, pc) ==
    [gc EXCEPT !.pass[i].pc = pc, !.pass[i].left = 0,
               !.garbageCollectorRunning = FALSE]

\* The loop over the entries goes on with the next instance directory (stat
\* is issued), or ends. `caught` tells that the inner catch has swallowed the
\* error of the entry before.
NextEntry(i, left, caught) ==
    LET errors == gc.pass[i].errors + (IF caught THEN 1 ELSE 0) IN
    IF left > 0
    THEN [gc EXCEPT !.pass[i] = [pc |-> "stat", left |-> left, errors |-> errors]]
    ELSE [Finally(i, "done") EXCEPT !.pass[i].errors = errors]

\* initialize number i of the process is called with gc enabled.
CollectGarbageCall(i) ==
    /\ gc.pass[i].pc = "idle"
    /\ \A j \in 1..MaxInits : j < i => gc.pass[j].pc # "idle"
    /\ LET e == collectGarbage(gc.garbageCollectorRunning) IN
       gc' = [gc EXCEPT !.pass[i].pc = e.pc, !.garbageCollectorRunning = e.running]
    /\ UNCHANGED <<configVars, poll, local, response, resources, cloud, created, init,
                   dispatchVars, dlq, cl, cancel, hist>>

\* readdir returns the directory with n instance directories, or fails: the
\* outer catch logs the error and the finally block clears the flag.
ReaddirReturns(i, ok, n) ==
    /\ gc.pass[i].pc = "readdir"
    /\ gc' = IF ok THEN NextEntry(i, n, FALSE) ELSE Finally(i, "failed")
    /\ UNCHANGED <<configVars, poll, local, response, resources, cloud, created, init,
                   dispatchVars, dlq, cl, cancel, hist>>

\* stat of the entry returns: an expired directory is handed to gcWorker; a
\* failure is swallowed by the inner catch and the loop goes on.
StatReturns(i, ok, expired) ==
    /\ gc.pass[i].pc = "stat"
    /\ gc' = IF ok /\ expired THEN [gc EXCEPT !.pass[i].pc = "gcWorker"]
             ELSE NextEntry(i, gc.pass[i].left - 1, ~ok)
    /\ UNCHANGED <<configVars, poll, local, response, resources, cloud, created, init,
                   dispatchVars, dlq, cl, cancel, hist>>

\* gcWorker(faastDir) ends, with success or with an error the inner catch
\* swallows.
GcWorkerReturns(i, ok) ==
    /\ gc.pass[i].pc = "gcWorker"
    /\ gc' = NextEntry(i, gc.pass[i].left - 1, ~ok)
    /\ UNCHANGED <<configVars, poll, local, response, resources, cloud, created, init,
                   dispatchVars, dlq, cl, cancel, hist>>

GCNext ==
    \E i \in 1..MaxInits :
        \/ CollectGarbageCall(i)
        \/ \E ok \in BOOLEAN : \E n \in 0..MaxEntries : ReaddirReturns(i, ok, n)
        \/ \E ok \in BOOLEAN : \E expired \in BOOLEAN : StatReturns(i, ok, expired)
        \/ \E ok \in BOOLEAN : GcWorkerReturns(i, ok)

SpecGC == InitLocal /\ [][GCNext]_vars

\* An initialized instance, one invoke of which awaits its reply.
InitMapping ==
    /\ useQueue \in BOOLEAN
    /\ rolePolicy \in RoleHandling
    /\ resources = RequiredFields \cup {"DeadLetterQueueUrl"}
                   \cup (IF useQueue THEN QueueFields ELSE {})
    /\ cloud = BaseObjects \cup (IF useQueue THEN QueueObjects ELSE {})
    /\ created = cloud \ (IF rolePolicy = "createOrReuseCachedRole"
                          THEN RoleObjects ELSE {})
    /\ init = [pc |-> "returned", fn |-> "resolved", tries |-> 0, fnTries |-> 0,
                option |-> "", RoleName |-> RoleName(rolePolicy, "")]
    /\ callResultPromises = EmptyMap
    /\ deferred = [c \in Calls |-> Unused]
    /\ resultCollectorPromise = 0
    /\ collector = [t \in Tasks |-> "unstarted"]
    /\ timers = <<>>
    /\ responseQueue = {}
    /\ call = [c \in Calls |-> NewCall]
    /\ dlq = [task |-> "polling", msgs |-> {}]
    /\ cl = NoCleanup
    /\ cancel = NoCancel
    /\ hist = NoHistory
    /\ poll = NoPoll
    /\ local = NoLocal
    /\ gc = NoGC
    /\ IF useQueue
       THEN \E r \in ValueReturns \cup ErrorReturns :
                response = Awaiting(QueueSettled(r))
       ELSE \/ \E r \in ValueReturns \cup ErrorReturns :
                   response = Awaiting(DirectSettled(FALSE, JSONstringify(r)))
            \/ \E Payload \in ErrorPayloads :
                   response = Awaiting(DirectSettled(TRUE, Payload))
            \/ response = Awaiting(DirectSettled(FALSE, undefined))

MappingNext ==
    \/ QueueResponse
    \/ DirectResponse

SpecMapping == InitMapping /\ [][MappingNext]_vars

\* ---------------------------------------------------- manifest specification
\* What a successful initialize leaves in the cloud and in the manifest.
FullCloud(queue) == BaseObjects \cup (IF queue THEN QueueObjects ELSE {})
ProducedManifest(queue) ==
    RequiredFields \cup {"DeadLetterQueueUrl"} \cup (IF queue THEN QueueFields ELSE {})

\* Resources that may be gone already when a teardown starts.
Gone ==
    {{}, {"function", "permission", "topic", "topicFeedbackAttr", "subscription"},
     ResourceKinds}

\* Either the instance is live after initialize, or another process holds a
\* manifest (any subset of the fields) while the resources exist or are gone.
InitManifest ==
    /\ useQueue \in BOOLEAN
    /\ rolePolicy \in RoleHandling
    /\ \/ /\ init = [pc |-> "returned", fn |-> "resolved", tries |-> 0, fnTries |-> 0,
                      option |-> "", RoleName |-> RoleName(rolePolicy, "")]
          /\ resources = ProducedManifest(useQueue)
          /\ cloud = FullCloud(useQueue)
          /\ created = cloud \ (IF rolePolicy = "createOrReuseCachedRole"
                                THEN RoleObjects ELSE {})
          /\ dlq = [task |-> "polling", msgs |-> {}]
       \/ /\ init = [pc |-> "none", fn |-> "none", tries |-> 0, fnTries |-> 0,
                      option |-> "", RoleName |-> RoleName(rolePolicy, "")]
          /\ resources \in SUBSET (RequiredFields \cup OptionalFields)
          /\ \E gone \in Gone : cloud = FullCloud(useQueue) \ gone
          /\ created = {}
          /\ dlq = [task |-> "none", msgs |-> {}]
    /\ callResultPromises = EmptyMap
    /\ deferred = [c \in Calls |-> Unused]
    /\ resultCollectorPromise = 0
    /\ collector = [t \in Tasks |-> "unstarted"]
    /\ timers = <<>>
    /\ responseQueue = {}
    /\ call = [c \in Calls |-> NewCall]
    /\ cl = NoCleanup
    /\ cancel = NoCancel
    /\ response = NoResponse
    /\ hist = NoHistory
    /\ poll = NoPoll
    /\ local = NoLocal
    /\ gc = NoGC

ManifestNext ==
    \/ CleanupResourcesCall
    \/ CleanupPartialCall
    \/ Cleanup
    \/ \E Messages \in SUBSET dlq.msgs : DeadLetterReceive(Messages)
    \/ DeadLetterReceiveFails

SpecManifest == InitManifest /\ [][ManifestNext]_vars

\* --------------------------------------------- pollAWSRequest, call by call
\* What a request made by fn() may end with: a provider error, or the data of
\* the response (an object).
ProviderErrors == {"InvalidParameterValueException", "ThrottlingException",
                   "AccessDeniedException"}
RequestOutcomes ==
    {[ok |-> FALSE, data |-> JSValue("error", e)] : e \in ProviderErrors}
    \cup {[ok |-> TRUE, data |-> JSValue("object", d)] :
              d \in {"FunctionConfiguration", "ResponseMetadata"}}

\* quietly(request): the data of the response, undefined when the request
\* fails.
quietly(outcome) == IF outcome.ok THEN outcome.data ELSE undefined

\* await sleep(2000) has ended: the loop is entered and fn() is called when
\* 0 < n; otherwise the function throws "Polling failed".
PollSettled ==
    /\ poll.pc = "settle"
    /\ poll' = [poll EXCEPT !.pc = IF 0 < poll.n THEN "attempt" ELSE "threw"]
    /\ UNCHANGED <<configVars, local, gc, response, resources, cloud, created, init,
                   dispatchVars, dlq, cl, cancel, hist>>

\* await quietly(fn()) has ended: a truthy result is returned, otherwise
\* sleep(1000) is awaited.
PollAttemptReturns(outcome) ==
    /\ poll.pc = "attempt"
    /\ LET result == quietly(outcome)
           next == pollAWSRequest(poll.n, poll.i, Truthy(result))
       IN  poll' = [poll EXCEPT !.attempts = Append(@, outcome),
                                !.pc = IF next = "done" THEN "returned" ELSE "sleep",
                                !.result = IF next = "done" THEN result ELSE @]
    /\ UNCHANGED <<configVars, local, gc, response, resources, cloud, created, init,
                   dispatchVars, dlq, cl, cancel, hist>>

\* await sleep(1000) has ended: i++, and fn() is called again while i < n;
\* after the loop the function throws "Polling failed".
PollSleepReturns ==
    /\ poll.pc = "sleep"
    /\ poll' = [poll EXCEPT !.i = @ + 1,
                            !.pc = IF pollAWSRequest(poll.n, poll.i, FALSE) = "retry"
                                   THEN "attempt" ELSE "threw"]
    /\ UNCHANGED <<configVars, local, gc, response, resources, cloud, created, init,
                   dispatchVars, dlq, cl, cancel, hist>>

\* pollAWSRequest(n, description, fn) has been called, for each n up to
\* MaxAttempts; no instance exists.
InitPoll ==
    /\ useQueue = TRUE
    /\ rolePolicy = "createOrReuseCachedRole"
    /\ resources = {}
    /\ cloud = {}
    /\ created = {}
    /\ init = [pc |-> "none", fn |-> "none", tries |-> 0, fnTries |-> 0,
               option |-> "", RoleName |-> RoleName(rolePolicy, "")]
    /\ callResultPromises = EmptyMap
    /\ deferred = [c \in Calls |-> Unused]
    /\ resultCollectorPromise = 0
    /\ collector = [t \in Tasks |-> "unstarted"]
    /\ timers = <<>>
    /\ responseQueue = {}
    /\ call = [c \in Calls |-> NewCall]
    /\ dlq = [task |-> "none", msgs |-> {}]
    /\ cl = NoCleanup
    /\ cancel = NoCancel
    /\ response = NoResponse
    /\ hist = NoHistory
    /\ \E n \in 0..MaxAttempts : poll = [NoPoll EXCEPT !.pc = "settle", !.n = n]
    /\ local = NoLocal
    /\ gc = NoGC

PollNext ==
    \/ PollSettled
    \/ \E outcome \in RequestOutcomes : PollAttemptReturns(outcome)
    \/ PollSleepReturns

\* Every timer fires and every request made by fn() ends.
SpecPoll == InitPoll /\ [][PollNext]_vars /\ WF_vars(PollNext)

\* ================================================================ properties

\* C1 (Correlation): a deferred that has been resolved was resolved with a
\* message whose CallId attribute is the CallId the deferred was registered
\* under (deferred c is registered under CallId c by invoke c), and with the
\* FunctionReturn parsed from that message's body; never with another call's
\* reply.
C1_Correlation ==
    \A c \in Calls :
        deferred[c].status = "resolved" =>
            /\ deferred[c].rawResponse.kind = "reply"
            /\ deferred[c].rawResponse.CallId = c
            /\ deferred[c].returned = JSONparse(deferred[c].rawResponse.Body).value

\* Two invokes are in flight together and the later one is answered first.
C1_Witness ==
    /\ deferred[2].status = "resolved"
    /\ deferred[1].status = "pending"
    /\ call[1].pc = "await" /\ call[2].pc = "await"

\* C2: after resultCollector has processed a batch with a stop sentinel,
\* every call whose deferred was registered and not settled at that moment is
\* rejected (Cancelled), the calls whose replies came ahead of the sentinel in
\* the same batch included.
C2_StopRejectsEveryOutstandingCall ==
    \A c \in hist.outstanding : deferred[c].status = "rejected"

\* C4: a resultCollector task is running if and only if callResultPromises is
\* non-empty.
C4_CollectorIffPending ==
    (\E t \in Tasks : collector[t] = "polling") <=> (DOMAIN callResultPromises # {})

\* C5: at most one resultCollector task is running at any instant.
C5_AtMostOneCollector ==
    Cardinality({t \in Tasks : collector[t] = "polling"}) <= 1

\* A collector has exited with its re-entry scheduled, and an invoke has
\* started the next collector before the re-entry callback ran.
C5_Witness ==
    /\ \E t \in Tasks : collector[t] = "done"
    /\ \E t \in Tasks : collector[t] = "polling"
    /\ \E i \in DOMAIN timers : timers[i].kind = "restart"

\* C6 (registration before publish): the turn that issues sns.publish for a
\* call has registered the call's pending deferred under its CallId and left
\* a collector handle in the state; and while the publish is in flight and the
\* reply is already on the response queue, the deferred is in the map under
\* the CallId the reply carries.
C6_RegistrationBeforePublish ==
    /\ [][\A c \in Calls :
            (call[c].pc # "publish" /\ call'[c].pc = "publish") =>
                /\ c \in DOMAIN callResultPromises'
                /\ callResultPromises'[c] = c
                /\ deferred'[c].status = "pending"
                /\ resultCollectorPromise' # 0
                /\ collector'[resultCollectorPromise'] = "polling"]_vars
    /\ [](\A c \in Calls :
            (call[c].pc = "publish" /\ ReplyMessage(c) \in responseQueue) =>
                MapGet(callResultPromises, c) = c)

\* The reply of a call has resolved its deferred while sns.publish has not
\* yet returned to the caller.
C6_Witness ==
    \E c \in Calls : call[c].pc = "publish" /\ deferred[c].status = "resolved"

\* C3: once the first cleanup(state) has returned (and no setTimeout callback
\* is left to run), no invoke whose deferred was registered before the return
\* is still waiting for its deferred: each has returned its reply, thrown
\* Cancelled, or thrown the error of sns.publish.
C3_NoInvokeLeftPendingAfterCleanup ==
    (cl.run = 1 /\ cl.pc = "returned" /\ timers = <<>>) =>
        \A c \in Calls \ hist.after :
            ~(call[c].pc = "await" /\ deferred[c].status = "pending")

\* C10 (teardown idempotence): when cleanup(state) is run again after it has
\* returned, with no invoke issued since the first run began, no run throws
\* and only the first run changes the cloud (a successful delete, unsubscribe
\* or send).
C10_TeardownIdempotent ==
    hist.late = {} =>
        /\ cl.pc # "threw"
        /\ \A run \in hist.mutated : run = 1

\* The second run has returned on an instance whose first teardown cancelled
\* a pending call.
C10_Witness ==
    /\ cl.run = 2 /\ cl.pc = "returned"
    /\ hist.late = {}
    /\ 1 \in hist.mutated
    /\ deferred[1].status = "rejected"

\* The manifest field under which cleanup looks for a cloud object.
NamedBy(object) ==
    CASE object \in {"function", "permission"} -> "FunctionName"
      [] object = "logGroup" -> "logGroupName"
      [] object \in {"execRole", "execRoleAttached", "execRoleInline"} -> "RoleName"
      [] object \in {"feedbackRole", "feedbackRoleAttached"} -> "SNSFeedbackRole"
      [] object \in {"topic", "topicFeedbackAttr"} -> "RequestTopicArn"
      [] object = "responseQueue" -> "ResponseQueueUrl"
      [] object = "dlq" -> "DeadLetterQueueUrl"
      [] object = "subscription" -> "SNSLambdaSubscriptionArn"

\* The objects this initialize created that teardown is meant to remove:
\* cached roles are kept by design.
Owned ==
    IF rolePolicy = "createOrReuseCachedRole" THEN created \ RoleObjects
    ELSE created

\* C8 (partial-failure teardown): once initialize has rejected, every cloud
\* object this initialize created (cached roles aside) has been deleted, and
\* none comes into existence afterwards, the createFunction task included.
C8_PartialFailureTeardown ==
    init.pc = "rejected" => cloud \cap Owned = {}

\* C9 (manifest superset): at every point during and after initialize, every
\* cloud object this instance has created and that still exists is named by
\* its field of state.resources.
C9_ManifestSuperset ==
    \A object \in cloud \cap created : NamedBy(object) \in resources

\* The FunctionReturn the followed invoke was handed, or undefined when the
\* reply carried none.
DeliveredReturn ==
    IF useQueue THEN response.settled.returned
    ELSE LET rawResponse == response.settled.rawResponse IN
         IF ~rawResponse.FunctionError /\ rawResponse.Payload.t = "json"
         THEN JSONparse(rawResponse.Payload).value
         ELSE undefined

\* C7 (result mapping): an invoke that was handed FunctionReturn r returns a
\* Response carrying rawResponse; if r.type is "error", error is an Error with
\* name, message and stack of r.value and value is undefined; if r.type is
\* "value", value is r.value and error is undefined.
C7_ResultMapping ==
    response.pc = "returned" /\ DeliveredReturn.t = "object" =>
        LET r == DeliveredReturn.v
            rv == response.rv
        IN  /\ rv.rawResponse = response.settled.rawResponse
            /\ r.type = "error" =>
                   /\ rv.error.t = "object"
                   /\ rv.error.v = r.value.v
                   /\ rv.value.t = "undefined"
            /\ r.type = "value" =>
                   /\ rv.value.t = r.value.t
                   /\ rv.value.v = r.value.v
                   /\ rv.error.t = "undefined"

\* The cloud objects a teardown on this manifest is to delete: those its
\* fields name, the roles only in the temporary-role mode.
Deletes(fields, policy) ==
    {object \in ResourceKinds :
        /\ NamedBy(object) \in fields
        /\ object \in RoleObjects =>
               "rolePolicy" \in fields /\ policy = "createTemporaryRole"}

\* C11 (manifest completeness): for the manifest of a successful initialize,
\* in either mode, what remains in the cloud after
\* cleanupResources(getResourceList(state)) in a process without live state
\* is a subset of what remains after cleanup(state) on the live state.
C11_ManifestCompleteness ==
    (cl.run = 1 /\ cl.pc = "returned" /\ resources = ProducedManifest(useQueue)) =>
        LET remaining == FullCloud(useQueue) \ Deletes(resources, rolePolicy) IN
        /\ (init.pc = "returned" /\ cl.via = "cleanup") => cloud = remaining
        /\ cl.via = "cleanupResources" => cloud \subseteq remaining

C11_Witness ==
    /\ init.pc = "none" /\ cl.via = "cleanupResources" /\ cl.pc = "returned"
    /\ useQueue /\ resources = ProducedManifest(TRUE)
    /\ rolePolicy = "createTemporaryRole"
    /\ 1 \in hist.mutated
    /\ cloud = {}

\* The manifest field whose resource a request of cleanup acts on.
FieldOf(step) ==
    CASE step = "unsubscribe" -> "SNSLambdaSubscriptionArn"
      [] step = "deleteFunction" -> "FunctionName"
      [] step = "deleteLogGroup" -> "logGroupName"
      [] step \in {"role.listAttached", "role.detach", "role.listInline",
                   "role.deleteInline", "role.deleteRole"} -> "RoleName"
      [] step \in {"sns.listAttached", "sns.detach", "sns.listInline",
                   "sns.deleteInline", "sns.deleteRole"} -> "SNSFeedbackRole"
      [] step = "deleteTopic" -> "RequestTopicArn"
      [] step = "deleteResponseQueue" -> "ResponseQueueUrl"
      [] step = "deleteDLQ" -> "DeadLetterQueueUrl"

\* C12 (subset tolerance): whatever subset of the manifest fields is set,
\* cleanup does not throw, has a request in flight (delete, unsubscribe, stop
\* sentinel) only for a resource whose field is set, and when it has returned
\* every object a set field names is gone, although deletes of absent
\* resources failed on the way.
C12_SubsetTolerance ==
    cl.pc # "malformed" =>
        /\ cl.pc # "threw"
        /\ cl.pc \in Range(CleanupSteps) \ {"awaitCancel"} =>
               FieldOf(cl.pc) \in resources
        /\ cancel.sendR # "none" => "ResponseQueueUrl" \in resources
        /\ cancel.sendD # "none" => "DeadLetterQueueUrl" \in resources
        /\ (cl.run = 1 /\ cl.pc = "returned") =>
               cloud \cap Deletes(resources, rolePolicy) = {}

C12_Witness ==
    /\ init.pc = "none" /\ cl.via = "cleanup" /\ cl.pc = "returned"
    /\ resources = {"FunctionName", "DeadLetterQueueUrl"}
    /\ ~useQueue
    /\ cloud = {"logGroup", "execRole", "execRoleAttached", "execRoleInline"}
    /\ 1 \in hist.mutated

\* C13 (loops stopped): when cleanup has returned, no resultCollector task is
\* polling and deadLetterQueueCollector has left its loop.
C13_LoopsStoppedWhenCleanupReturns ==
    cl.pc = "returned" =>
        /\ \A t \in Tasks : collector[t] # "polling"
        /\ dlq.task # "polling"

\* No collector task is inside its loop.
CollectorsExited ==
    /\ \A t \in Tasks : collector[t] # "polling"
    /\ dlq.task # "polling"

\* C14 (teardown order): a step of cleanup that deletes the function finds
\* the subscription gone, the stop sentinels sent and the collectors exited;
\* the log group is deleted after the function, the temporary roles after
\* the log group, the topic after the roles, the response queue after the
\* topic and the dead-letter queue last; no queue is deleted while its
\* collector polls it.
C14_TeardownOrder ==
    [][/\ ("function" \in cloud /\ "function" \notin cloud') =>
              /\ "subscription" \notin cloud
              /\ CancelPromise(cancel, collector) = "resolved"
              /\ CollectorsExited
       /\ ("logGroup" \in cloud /\ "logGroup" \notin cloud') =>
              "function" \notin cloud
       /\ (cloud \cap RoleObjects # cloud' \cap RoleObjects) =>
              "logGroup" \notin cloud
       /\ ("topic" \in cloud /\ "topic" \notin cloud') =>
              (rolePolicy = "createTemporaryRole" => cloud \cap RoleObjects = {})
       /\ ("responseQueue" \in cloud /\ "responseQueue" \notin cloud') =>
              /\ "topic" \notin cloud
              /\ \A t \in Tasks : collector[t] # "polling"
       /\ ("dlq" \in cloud /\ "dlq" \notin cloud') =>
              /\ "responseQueue" \notin cloud
              /\ dlq.task # "polling"
      ]_vars

\* C15 (malformed manifest): cleanupResources on a manifest without region
\* throws at once: no SDK client is constructed, no request is issued (no
\* stop sentinel, no delete) and the cloud is as it was.
C15_MalformedManifest ==
    (cl.via = "cleanupResources" /\ "region" \notin resources) =>
        /\ cl.pc = "malformed"
        /\ ~cl.services
        /\ cancel = NoCancel
        /\ hist.mutated = {}
        /\ \E gone \in Gone : cloud = FullCloud(useQueue) \ gone

C15_Witness ==
    /\ cl.pc = "malformed" /\ cl.run = 1
    /\ useQueue
    /\ resources = ProducedManifest(TRUE) \ {"region"}
    /\ cloud = FullCloud(TRUE)

\* The requests of deleteRole, for either role.
RoleSteps ==
    {"role.listAttached", "role.detach", "role.listInline", "role.deleteInline",
     "role.deleteRole", "sns.listAttached", "sns.detach", "sns.listInline",
     "sns.deleteInline", "sns.deleteRole"}

\* C16 (role deletion by mode): through initialize, its failure path, cleanup
\* and cleanupResources, a request of deleteRole is in flight, and
\* iam.deleteRole has been issued, only in the temporary-role mode; in that
\* mode a cleanup that has returned has issued iam.deleteRole for each role
\* its manifest names, and the RoleName is the one made of the nonce whatever
\* the option; in cached mode no step takes a role or a policy of a role away.
C16_RoleDeletionByMode ==
    /\ [](/\ cl.pc \in RoleSteps => rolePolicy = "createTemporaryRole"
          /\ hist.deleteRole # {} => rolePolicy = "createTemporaryRole"
          /\ (rolePolicy = "createTemporaryRole" /\ cl.pc = "returned") =>
                 /\ "RoleName" \in cl.snap.fields => "role" \in hist.deleteRole
                 /\ "SNSFeedbackRole" \in cl.snap.fields => "sns" \in hist.deleteRole
          /\ rolePolicy = "createTemporaryRole" =>
                 init.RoleName = "cloudify-role-nonce")
    /\ [][rolePolicy = "createOrReuseCachedRole" =>
              cloud \cap RoleObjects \subseteq cloud']_vars

C16_Witness ==
    /\ rolePolicy = "createTemporaryRole" /\ init.option = "my-role"
    /\ init.pc = "returned" /\ cl.pc = "returned" /\ useQueue
    /\ hist.deleteRole = {"role", "sns"}
    /\ cloud \cap RoleObjects = {}

\* The resource an optional manifest field stands for.
ObjectOf(field) ==
    CASE field = "RequestTopicArn" -> "topic"
      [] field = "ResponseQueueUrl" -> "responseQueue"
      [] field = "DeadLetterQueueUrl" -> "dlq"
      [] field = "SNSLambdaSubscriptionArn" -> "subscription"
      [] field = "SNSFeedbackRole" -> "feedbackRole"

\* C17 (queue-mode fields): each of the five optional fields is set exactly
\* when this instance has created its resource (the feedback role may also
\* be an adopted one), and a direct-mode initialize creates none of the five
\* resources and sets none of the five fields.
C17_QueueModeFields ==
    /\ \A field \in OptionalFields :
           /\ field \in resources =>
                  ObjectOf(field) \in created \/ field = "SNSFeedbackRole"
           /\ ObjectOf(field) \in created => field \in resources
    /\ ~useQueue =>
           /\ resources \cap OptionalFields = {}
           /\ created \cap {ObjectOf(field) : field \in OptionalFields} = {}


\* C18 (liveness with collector re-entry): when the SDK calls succeed and no
\* teardown is started, every queue-mode invoke whose reply has been placed on
\* the response queue eventually returns its Response, an invoke registered
\* after the collector had exited included.
C18_RepliedInvokeCompletes ==
    \A c \in Calls : (useQueue /\ call[c].replied) ~> (call[c].pc = "returned")

\* The second invoke was registered after the first collector had exited (it
\* started the second one), and has returned the reply it was sent.
C18_Witness ==
    /\ useQueue
    /\ collector[1] = "done" /\ collector[2] # "unstarted"
    /\ call[2].replied /\ call[2].pc = "returned"


\* C19 (batch isolation): a call whose slot a received batch has removed
\* from callResultPromises is completed by that batch, whatever other
\* messages the batch holds: once the setTimeout callbacks have run, no
\* registered call is still pending with its slot gone from the map.
C19_BatchIsolation ==
    timers = <<>> =>
        \A c \in Calls :
            deferred[c].status = "pending" => c \in DOMAIN callResultPromises


\* C20 (pending-slot lifecycle): callResultPromises holds a CallId only while
\* its deferred is pending and its invoke has not ended: the entry of a call
\* that was completed, cancelled by a stop sentinel, or whose sns.publish was
\* rejected has been removed.
C20_SlotLifecycle ==
    \A c \in DOMAIN callResultPromises :
        /\ deferred[c].status = "pending"
        /\ call[c].pc \in {"publish", "await"}


\* The requests of initialize in the order it awaits them, and those of
\* createFunction; Rank is the position of a program point in its sequence.
InitializeSteps ==
    <<"createLogGroup", "putRetentionPolicy", "createDLQ", "getQueueAttributes",
      "sns.getRole", "sns.createRole", "sns.attachRolePolicy", "createTopic",
      "setTopicAttributes", "createResponseQueue", "awaitFunction",
      "addPermission", "subscribe", "returned">>

CreateFunctionSteps ==
    <<"none", "getRole", "createRole", "attachRolePolicy", "putRolePolicy", "pack",
      "getFunction", "createFunction", "resolved">>

Rank(steps, pc) == CHOOSE i \in DOMAIN steps : steps[i] = pc

\* initialize is inside its try block and createFunction has not thrown.
Provisioning ==
    /\ init.pc \in Range(InitializeSteps)
    /\ init.fn \in Range(CreateFunctionSteps)

\* The provisioning steps that have been issued so far.
Issued ==
    LET at(pc) == Rank(InitializeSteps, init.pc) >= Rank(InitializeSteps, pc)
        fnAt(pc) == Rank(CreateFunctionSteps, init.fn) >= Rank(CreateFunctionSteps, pc)
    IN  {"logGroup"}
        \cup (IF fnAt("getRole") THEN {"function", "execRole"} ELSE {})
        \cup (IF fnAt("putRolePolicy") THEN {"inlineDeny"} ELSE {})
        \cup (IF at("createDLQ") THEN {"dlq"} ELSE {})
        \cup (IF dlq.task # "none" THEN {"drain"} ELSE {})
        \cup (IF at("sns.getRole") THEN {"feedbackRole"} ELSE {})
        \cup (IF at("createTopic") THEN {"topic"} ELSE {})
        \cup (IF at("createResponseQueue") THEN {"responseQueue"} ELSE {})
        \cup (IF at("awaitFunction") THEN {"awaitFunction"} ELSE {})
        \cup (IF at("addPermission") THEN {"permission"} ELSE {})
        \cup (IF at("subscribe") THEN {"subscribe"} ELSE {})
        \cup (IF at("returned") THEN {"collector"} ELSE {})

InOrder(order) ==
    \A i, j \in DOMAIN order : (i < j /\ order[j] \in Issued) => order[i] \in Issued

\* C21 (provisioning order, queue mode): while initialize provisions, a step
\* has been issued only if every step before it in this order has been
\* issued: execution role, inline deny policy, log group, dead-letter queue,
\* drain, function creation, feedback role, request topic, response queue,
\* await of the function, invoke permission, subscription, collector.
C21_ProvisioningOrder ==
    (useQueue /\ Provisioning) =>
        InOrder(<<"execRole", "inlineDeny", "logGroup", "dlq", "drain", "function",
                  "feedbackRole", "topic", "responseQueue", "awaitFunction",
                  "permission", "subscribe", "collector">>)


\* C22 (bounded poll-until-success): pollAWSRequest(n, d, fn) calls fn at
\* most n times; when it returns, its result is the data of the last attempt,
\* which succeeded, and every attempt before it failed; when it throws, it has
\* made exactly n attempts and all of them failed, whatever the provider
\* error; and it always ends.
C22_BoundedPoll ==
    /\ [](/\ Len(poll.attempts) <= poll.n
          /\ poll.pc = "returned" =>
                /\ poll.attempts # <<>>
                /\ poll.attempts[Len(poll.attempts)].ok
                /\ poll.result = poll.attempts[Len(poll.attempts)].data
                /\ \A k \in 1..(Len(poll.attempts) - 1) : ~poll.attempts[k].ok
          /\ poll.pc = "threw" =>
                /\ Len(poll.attempts) = poll.n
                /\ \A k \in DOMAIN poll.attempts : ~poll.attempts[k].ok)
    /\ <>(poll.pc \in {"returned", "threw"})

\* The last of n > 2 attempts succeeded after failures with different
\* provider errors.
C22_Witness ==
    /\ poll.pc = "returned"
    /\ poll.n > 2 /\ Len(poll.attempts) = poll.n
    /\ poll.attempts[1].data # poll.attempts[2].data


\* C23 (the dead-letter drain never touches caller state): a step in which
\* deadLetterQueueCollector receives messages, dead letters and stop sentinels
\* alike, leaves callResultPromises, every deferred and
\* resultCollectorPromise as they were.
C23_DrainLeavesCallerState ==
    [][(dlq.task = "polling" /\ dlq'.msgs # dlq.msgs /\ dlq'.msgs \subseteq dlq.msgs)
           => UNCHANGED <<callResultPromises, deferred, resultCollectorPromise>>]_vars

\* The request of a queue-mode call ended in the dead-letter queue and the
\* drain has received it: the call is still awaiting its pending deferred.
C23_Witness ==
    \E c \in hist.deadLetters :
        /\ DeadLetterMessage(c) \notin dlq.msgs
        /\ call[c].pc = "await" /\ deferred[c].status = "pending"
        /\ c \in DOMAIN callResultPromises


\* C24 (cleanup terminates): when every SDK request ends, with success or
\* with an error, a cleanup(state) that has been called eventually returns or
\* throws: its await of the collector's promise does not block forever.
C24_CleanupTerminates ==
    (cl.pc \notin {"idle", "returned", "threw", "malformed"})
        ~> (cl.pc \in {"returned", "threw"})


\* C25 (a failed receiveMessage does not wedge the instance):
\* state.resultCollectorPromise never refers to a resultCollector task that
\* has ended; while it is set, that task is polling.
C25_HandleRefersToRunningCollector ==
    resultCollectorPromise # 0 => collector[resultCollectorPromise] = "polling"


\* C26 (an instance deletes only what it created): across initialize, its
\* failure path and cleanup, every cloud object that a step removes was
\* created by this initialize.
C26_DeletesOnlyWhatItCreated ==
    [][\A object \in cloud \ cloud' : object \in created]_vars


\* C27 (local provider, one call per wrapper): no two callFunction calls hold
\* the same Wrapper at the same time, from the moment getWrapper has handed
\* it out until wrapper.execute has ended.
C27_WrapperHeldByOneCall ==
    \A c1, c2 \in LocalCalls :
        (/\ c1 # c2
         /\ local.call[c1].pc \in {"obtained", "executing"}
         /\ local.call[c2].pc \in {"obtained", "executing"})
            => local.call[c1].wrapper # local.call[c2].wrapper


\* The collectGarbage passes that are scanning the temp directory.
Scanning == {i \in 1..MaxInits : gc.pass[i].pc \in {"readdir", "stat", "gcWorker"}}

\* C28 (single-flight garbage collection): at most one collectGarbage pass is
\* scanning at any time; garbageCollectorRunning is set exactly while a pass
\* is scanning, so it is clear after every exit of a pass; and a call made
\* while a pass is scanning returns without scanning.
C28_SingleFlightGC ==
    /\ [](/\ Cardinality(Scanning) <= 1
          /\ gc.garbageCollectorRunning <=> Scanning # {})
    /\ [][\A i \in 1..MaxInits :
             (gc.pass[i].pc = "idle" /\ gc'.pass[i].pc # "idle") =>
                 gc'.pass[i].pc = (IF Scanning # {} THEN "skipped" ELSE "readdir")]_vars

\* A pass has ended in the failure of readdir, a later pass has ended after
\* a failed stat or gcWorker, a call made while it was scanning was skipped,
\* and the flag is clear.
C28_Witness ==
    /\ \E i \in 1..MaxInits : gc.pass[i].pc = "failed"
    /\ \E i \in 1..MaxInits : gc.pass[i].pc = "done" /\ gc.pass[i].errors > 0
    /\ \E i \in 1..MaxInits : gc.pass[i].pc = "skipped"
    /\ ~gc.garbageCollectorRunning

====
